---------------------------- MODULE Spec2Model ----------------------------
(***************************************************************************)
(* PKWare DCL "implode" / "explode" codec (pklib-rs).                      *)
(*                                                                         *)
(* The module models the streaming compressor ImplodeWriter               *)
(* (src/src/implode) and the streaming decompressor ExplodeReader         *)
(* (src/src/explode) as state machines over byte sequences.  Every method *)
(* of the two objects is an operator from an object value (a record of    *)
(* its fields) to the object value after the call; the actions apply the  *)
(* public methods.  Arrays are functions over 0..n-1, as in the source.   *)
(***************************************************************************)
EXTENDS Integers, Sequences, FiniteSets, TLC

(***************************************************************************)
(* State.  implode_writer is the ImplodeWriter and explode_reader the      *)
(* ExplodeReader; phase tells which of them is live.  written is the       *)
(* concatenation of the buffers passed to write and calls the sequence of  *)
(* write and flush calls made so far.  output is the Vec that explode_bytes *)
(* reads into and result what explode_bytes returned.  async_writer is the *)
(* AsyncImplodeWriter.                                                     *)
(***************************************************************************)
VARIABLES implode_writer, written, calls, phase, explode_reader, output, result,
          async_writer

vars == <<implode_writer, written, calls, phase, explode_reader, output, result,
          async_writer>>

(***************************************************************************)
(* Bounds of the explored inputs.                                          *)
(***************************************************************************)
MaxInput == 3

MaxChunk == 2

MaxFlushes == 1

MaxLen == 6

MaxReadLen == 4096

MaxPending == 6

MaxWork == 6


(***************************************************************************)
(* Fixed-width integer helpers.  All values are naturals; shifts and      *)
(* masks are the u8/u16/u32 operations of the source.                      *)
(***************************************************************************)
Pow2(n) == 2 ^ n

Shl(x, n) == x * Pow2(n)

Shr(x, n) == x \div Pow2(n)

Min(a, b) == IF a < b THEN a ELSE b

RECURSIVE BitOr(_, _)
BitOr(a, b) ==
  IF a = 0 THEN b
  ELSE IF b = 0 THEN a
  ELSE (IF a % 2 = 1 \/ b % 2 = 1 THEN 1 ELSE 0) + 2 * BitOr(a \div 2, b \div 2)

Idx0(s) == [i \in 0 .. (Len(s) - 1) |-> s[i + 1]]

SeqOf(f, lo, hi) == [i \in 1 .. (hi - lo) |-> f[lo + i - 1]]

(***************************************************************************)
(* Static code tables (crate::tables).  The values are those of the       *)
(* PKWare DCL reference; each (bits, code) pair of tables is a complete    *)
(* LSB-first prefix code.                                                  *)
(***************************************************************************)
DIST_BITS ==
  Idx0(<<
       2, 4, 4, 5, 5, 5, 5, 6, 6, 6, 6, 6, 6, 6, 6, 6,
       6, 6, 6, 6, 6, 6, 7, 7, 7, 7, 7, 7, 7, 7, 7, 7,
       7, 7, 7, 7, 7, 7, 7, 7, 7, 7, 7, 7, 7, 7, 7, 7,
       8, 8, 8, 8, 8, 8, 8, 8, 8, 8, 8, 8, 8, 8, 8, 8 >>)

DIST_CODE ==
  Idx0(<<
       3, 13, 5, 25, 9, 17, 1, 62, 30, 46, 14, 54, 22, 38, 6, 58,
       26, 42, 10, 50, 18, 34, 66, 2, 124, 60, 92, 28, 108, 44, 76, 12,
       116, 52, 84, 20, 100, 36, 68, 4, 120, 56, 88, 24, 104, 40, 72, 8,
       240, 112, 176, 48, 208, 80, 144, 16, 224, 96, 160, 32, 192, 64, 128, 0 >>)

EX_LEN_BITS ==
  Idx0(<<
       0, 0, 0, 0, 0, 0, 0, 0, 1, 2, 3, 4, 5, 6, 7, 8 >>)

LEN_BASE ==
  Idx0(<<
       0, 1, 2, 3, 4, 5, 6, 7, 8, 10, 14, 22, 38, 70, 134, 262 >>)

LEN_BITS ==
  Idx0(<<
       3, 2, 3, 3, 4, 4, 4, 5, 5, 5, 5, 6, 6, 6, 7, 7 >>)

LEN_CODE ==
  Idx0(<<
       5, 3, 1, 6, 10, 2, 12, 20, 4, 24, 8, 48, 16, 32, 64, 0 >>)

CH_BITS_ASC ==
  Idx0(<<
       11, 12, 12, 12, 12, 12, 12, 12, 12, 8, 7, 12, 12, 7, 12, 12,
       12, 12, 12, 12, 12, 12, 12, 12, 12, 12, 13, 12, 12, 12, 12, 12,
       4, 10, 8, 12, 10, 12, 10, 8, 7, 7, 8, 9, 7, 6, 7, 8,
       7, 6, 7, 7, 7, 7, 8, 7, 7, 8, 8, 12, 11, 7, 9, 11,
       12, 6, 7, 6, 6, 5, 7, 8, 8, 6, 11, 9, 6, 7, 6, 6,
       7, 11, 6, 6, 6, 7, 9, 8, 9, 9, 11, 8, 11, 9, 12, 8,
       12, 5, 6, 6, 6, 5, 6, 6, 6, 5, 11, 7, 5, 6, 5, 5,
       6, 10, 5, 5, 5, 5, 8, 7, 8, 8, 10, 11, 11, 12, 12, 12,
       13, 13, 13, 13, 13, 13, 13, 13, 13, 13, 13, 13, 13, 13, 13, 13,
       13, 13, 13, 13, 13, 13, 13, 13, 13, 13, 13, 13, 13, 13, 13, 13,
       13, 13, 13, 13, 13, 13, 13, 13, 13, 13, 13, 13, 13, 13, 13, 13,
       12, 12, 12, 12, 12, 12, 12, 12, 12, 12, 12, 12, 12, 12, 12, 12,
       12, 12, 12, 12, 12, 12, 12, 12, 12, 12, 12, 12, 12, 12, 12, 12,
       12, 12, 12, 12, 12, 12, 12, 12, 12, 12, 12, 12, 12, 12, 12, 12,
       13, 12, 13, 13, 13, 12, 13, 13, 13, 12, 13, 13, 13, 13, 12, 13,
       13, 13, 12, 12, 12, 13, 13, 13, 13, 13, 13, 13, 13, 13, 13, 13 >>)

CH_CODE_ASC ==
  Idx0(<<
       1168, 4064, 2016, 3040, 992, 3552, 1504, 2528,
       480, 184, 98, 3808, 1760, 34, 2784, 736,
       3296, 1248, 2272, 224, 3936, 1888, 2912, 864,
       3424, 1376, 4672, 2400, 352, 3680, 1632, 2656,
       15, 592, 56, 608, 80, 3168, 912, 216,
       66, 2, 88, 432, 124, 41, 60, 152,
       92, 9, 28, 108, 44, 76, 24, 12,
       116, 232, 104, 1120, 144, 52, 176, 1808,
       2144, 49, 84, 17, 33, 23, 20, 168,
       40, 1, 784, 304, 62, 100, 30, 46,
       36, 1296, 14, 54, 22, 68, 48, 200,
       464, 208, 272, 72, 1552, 336, 96, 136,
       4000, 7, 38, 6, 58, 27, 26, 42,
       10, 11, 528, 4, 19, 50, 3, 29,
       18, 400, 13, 21, 5, 25, 8, 120,
       240, 112, 656, 1040, 16, 1952, 2976, 928,
       576, 7232, 3136, 5184, 1088, 6208, 2112, 4160,
       64, 8064, 3968, 6016, 1920, 7040, 2944, 4992,
       896, 7552, 3456, 5504, 1408, 6528, 2432, 4480,
       384, 7808, 3712, 5760, 1664, 6784, 2688, 4736,
       640, 7296, 3200, 5248, 1152, 6272, 2176, 4224,
       128, 7936, 3840, 5888, 1792, 6912, 2816, 4864,
       3488, 1440, 2464, 416, 3744, 1696, 2720, 672,
       3232, 1184, 2208, 160, 3872, 1824, 2848, 800,
       3360, 1312, 2336, 288, 3616, 1568, 2592, 544,
       3104, 1056, 2080, 32, 4032, 1984, 3008, 960,
       3520, 1472, 2496, 448, 3776, 1728, 2752, 704,
       3264, 1216, 2240, 192, 3904, 1856, 2880, 832,
       768, 3392, 7424, 3328, 5376, 1344, 1280, 6400,
       2304, 2368, 4352, 256, 7680, 3584, 320, 5632,
       1536, 6656, 3648, 1600, 2624, 2560, 4608, 512,
       7168, 3072, 5120, 1024, 6144, 2048, 4096, 0 >>)

(***************************************************************************)
(* Program constants.                                                      *)
(***************************************************************************)
WORK_BUFF_SIZE == 8708

OUT_BUFF_SIZE == 2050

HASH_TABLE_SIZE == 2304

LITERALS_COUNT == 774

MAX_REP_LENGTH == 516

OUT_FLUSH_BYTES == 2048

WRITE_THRESHOLD == 4096

END_MARKER == 773

NONE == -1

Binary == 0

ASCII == 1

(***************************************************************************)
(* DictionarySize (common.rs): the enum value is the size in bytes.        *)
(***************************************************************************)
DictionarySizes == {1024, 2048, 4096}

bits(dict_size) ==
  CASE dict_size = 1024 -> 4
    [] dict_size = 2048 -> 5
    [] dict_size = 4096 -> 6

byte_pair_hash_second(b0, b1) == 5 * b1

byte_pair_hash(b0, b1) == (b0 * 4) + (b1 * 5)

(***************************************************************************)
(* ImplodeState::init_literal_tables: entry i of the result is the pair    *)
(* (literal_bits[i], literal_codes[i]).  Codes are u16.                    *)
(***************************************************************************)
RECURSIVE length_entries(_)
length_entries(i) ==
  IF i = 16 THEN << >>
  ELSE [c \in 1 .. Pow2(EX_LEN_BITS[i]) |->
          [bits |-> EX_LEN_BITS[i] + LEN_BITS[i] + 1,
           code |-> BitOr(BitOr(Shl(c - 1, LEN_BITS[i] + 1) % 65536,
                                ((LEN_CODE[i] % 256) * 2) % 65536), 1)]]
       \o length_entries(i + 1)

init_literal_tables(ctype) ==
  LET lits == [i \in 1 .. 256 |->
                 IF ctype = Binary
                 THEN [bits |-> 9, code |-> (i - 1) * 2]
                 ELSE [bits |-> CH_BITS_ASC[i - 1] + 1,
                       code |-> (CH_CODE_ASC[i - 1] * 2) % 65536]]
      all  == lits \o length_entries(0)
  IN  [i \in 0 .. (LITERALS_COUNT - 1) |->
         IF i < Len(all) THEN all[i + 1] ELSE [bits |-> 0, code |-> 0]]

LiteralsBinary == init_literal_tables(Binary)

LiteralsASCII == init_literal_tables(ASCII)

literal_table(ctype) == IF ctype = Binary THEN LiteralsBinary ELSE LiteralsASCII

(***************************************************************************)
(* ImplodeWriter::new / ImplodeState::new.  The record holds the fields of *)
(* the writer and of its ImplodeState; `writer` is the sink (a Vec<u8>).   *)
(* work_buff is held as its first work_bytes bytes (the rest of the array  *)
(* is zero).  Five fields record history: `emitted` the (n_bits, code)     *)
(* pairs handed to output_bits by the encoder, `bit_stream` their bits in  *)
(* the order written, `encoded` the input bytes the codes stand for, `eos` *)
(* the number of end markers written, and `searches` the calls of          *)
(* find_repetition made by compress_buffer: the position, the match        *)
(* returned and work_bytes at the call.  `pos` is the local of             *)
(* compress_buffer.                                                        *)
(***************************************************************************)
new(mode, dict_size) ==
  [ writer       |-> << >>,
    initialized  |-> FALSE,
    finished     |-> FALSE,
    input_buffer |-> << >>,
    ctype        |-> mode,
    dsize_bytes  |-> dict_size,
    dsize_bits   |-> bits(dict_size),
    dsize_mask   |-> Pow2(bits(dict_size)) - 1,
    distance     |-> 0,
    out_bytes    |-> 0,
    out_bits     |-> 0,
    out_buff     |-> [i \in 0 .. (OUT_BUFF_SIZE - 1) |-> 0],
    work_buff    |-> << >>,
    err          |-> FALSE,
    emitted      |-> << >>,
    bit_stream   |-> << >>,
    encoded      |-> << >>,
    eos          |-> 0,
    searches     |-> << >>,
    pos          |-> 0 ]

work_bytes(w) == Len(w.work_buff)

work_at(work, i) == IF i < Len(work) THEN work[i + 1] ELSE 0

(***************************************************************************)
(* ImplodeWriter::initialize                                               *)
(***************************************************************************)
initialize(w) ==
  IF w.initialized THEN w
  ELSE [w EXCEPT !.out_buff = [i \in 0 .. (OUT_BUFF_SIZE - 1) |->
                                 IF i = 0 THEN w.ctype
                                 ELSE IF i = 1 THEN w.dsize_bits ELSE 0],
                 !.out_bytes = 2,
                 !.out_bits = 0,
                 !.initialized = TRUE]

(***************************************************************************)
(* ImplodeWriter::flush_output_buffer                                      *)
(***************************************************************************)
flush_output_buffer_clearing(w) ==
  IF w.out_bytes > 0 /\ w.out_bytes <= OUT_BUFF_SIZE
  THEN [w EXCEPT !.writer = @ \o SeqOf(w.out_buff, 0, w.out_bytes),
                 !.out_buff = [i \in 0 .. (OUT_BUFF_SIZE - 1) |-> 0],
                 !.out_bytes = 0]
  ELSE w

flush_output_buffer(w) ==
  IF w.out_bytes > 0 /\ w.out_bytes <= OUT_BUFF_SIZE
  THEN LET bytes_to_write == w.out_bytes
           save_byte == IF w.out_bits > 0 /\ bytes_to_write < OUT_BUFF_SIZE
                        THEN w.out_buff[bytes_to_write] ELSE 0
       IN  [w EXCEPT !.writer = @ \o SeqOf(w.out_buff, 0, bytes_to_write),
                     !.out_buff = [i \in 0 .. (OUT_BUFF_SIZE - 1) |->
                                     IF i = 0 /\ w.out_bits > 0 THEN save_byte ELSE 0],
                     !.out_bytes = 0]
  ELSE w

(***************************************************************************)
(* ImplodeWriter::output_bits.  store_bits is the body after the split of  *)
(* codes longer than 8 bits and the capacity check; flush_if_full is the   *)
(* flush at the end of the function.                                       *)
(***************************************************************************)
store_bits_unshifted(w, n_bits, bit_buffer) ==
  LET out_bits  == w.out_bits
      out_bytes == w.out_bytes
      cur       == BitOr(w.out_buff[out_bytes], Shl(bit_buffer, out_bits) % 256)
      sum       == out_bits + n_bits
  IN  IF sum > 8
      THEN [w EXCEPT !.out_buff = [@ EXCEPT ![out_bytes] = cur,
                                            ![out_bytes + 1] = bit_buffer % 256],
                     !.out_bytes = out_bytes + 1,
                     !.out_bits = sum % 8]
      ELSE [w EXCEPT !.out_buff = [@ EXCEPT ![out_bytes] = cur],
                     !.out_bits = sum % 8,
                     !.out_bytes = IF sum % 8 = 0 THEN out_bytes + 1 ELSE out_bytes]

store_bits(w, n_bits, bit_buffer) ==
  LET out_bits  == w.out_bits
      out_bytes == w.out_bytes
      cur       == BitOr(w.out_buff[out_bytes], Shl(bit_buffer, out_bits) % 256)
      sum       == out_bits + n_bits
  IN  IF sum > 8
      THEN [w EXCEPT !.out_buff =
                        IF out_bytes + 1 < OUT_BUFF_SIZE
                        THEN [@ EXCEPT ![out_bytes] = cur,
                                       ![out_bytes + 1] = Shr(bit_buffer, 8 - out_bits) % 256]
                        ELSE [@ EXCEPT ![out_bytes] = cur],
                     !.out_bytes = out_bytes + 1,
                     !.out_bits = sum % 8]
      ELSE [w EXCEPT !.out_buff = [@ EXCEPT ![out_bytes] = cur],
                     !.out_bits = sum % 8,
                     !.out_bytes = IF sum % 8 = 0 THEN out_bytes + 1 ELSE out_bytes]

flush_if_full(w1) ==
  IF w1.out_bytes >= OUT_FLUSH_BYTES THEN flush_output_buffer(w1) ELSE w1

RECURSIVE output_bits(_, _, _)
output_bits(w, n_bits, bit_buffer) ==
  IF n_bits > 8
  THEN output_bits(output_bits(w, 8, bit_buffer), n_bits - 8, Shr(bit_buffer, 8))
  ELSE IF w.out_bytes >= OUT_BUFF_SIZE
  THEN output_bits(flush_output_buffer(w), n_bits, bit_buffer)
  ELSE flush_if_full(store_bits(w, n_bits, bit_buffer))

emit(w, n_bits, code) ==
  [output_bits(w, n_bits, code)
     EXCEPT !.emitted = Append(@, <<n_bits, code>>),
            !.bit_stream = @ \o [i \in 1 .. n_bits |-> Shr(code, i - 1) % 2]]

emit_literal(w, entry) == emit(w, entry.bits, entry.code)

(***************************************************************************)
(* ImplodeWriter::encode_literal / encode_match                            *)
(***************************************************************************)
encode_literal(w, byte) ==
  IF byte < LITERALS_COUNT
  THEN [emit_literal(w, literal_table(w.ctype)[byte]) EXCEPT !.encoded = Append(@, byte)]
  ELSE [w EXCEPT !.err = TRUE]

encode_distance(w, dist_minus_one, low_bits, low_mask) ==
  LET dist_code_index == Shr(dist_minus_one, low_bits)
  IN  IF dist_code_index < 64
      THEN emit(emit(w, DIST_BITS[dist_code_index], DIST_CODE[dist_code_index]),
                low_bits, dist_minus_one % (low_mask + 1))
      ELSE [w EXCEPT !.err = TRUE]

encode_match_bytes(w2, bytes) ==
  IF w2.err THEN w2 ELSE [w2 EXCEPT !.encoded = @ \o bytes]

encode_match(w, pos, length, distance) ==
  IF length + 254 < LITERALS_COUNT
  THEN encode_match_bytes(
         encode_distance(emit_literal(w, literal_table(w.ctype)[length + 254]),
                         distance - 1,
                         IF length = 2 THEN 2 ELSE w.dsize_bits,
                         IF length = 2 THEN 3 ELSE w.dsize_mask),
         [i \in 1 .. length |-> work_at(w.work_buff, pos + i - 1)])
  ELSE [w EXCEPT !.err = TRUE]
(***************************************************************************)
(* first_true(f, lo, hi): the least i in lo .. hi with f[i], NONE when     *)
(* there is none.  It stands for a loop that runs an index upwards until   *)
(* its exit condition holds; the search halves the range so that long      *)
(* loops do not nest deeply.                                               *)
(***************************************************************************)
RECURSIVE first_true(_, _, _)
first_true(f, lo, hi) ==
  IF lo > hi THEN NONE
  ELSE IF lo = hi THEN (IF f[lo] THEN lo ELSE NONE)
  ELSE LET mid  == (lo + hi) \div 2
           left == first_true(f, lo, mid)
       IN  IF left # NONE THEN left ELSE first_true(f, mid + 1, hi)

(***************************************************************************)
(* ImplodeState::sort_buffer, a counting sort in four steps over the two   *)
(* arrays phash_to_index ([u16; HASH_TABLE_SIZE]) and phash_offs           *)
(* ([u16; WORK_BUFF_SIZE]).  Each loop is a record of its loop variable    *)
(* and the arrays it writes: count_pair is the body of the loop of step 2  *)
(* (pos ascending), add_count that of step 3 (hash ascending) and          *)
(* place_pair that of step 4 (`next` is one more than pos, descending);    *)
(* count_pairs, cumulative_counts and place_pairs run at most n passes of  *)
(* them, halving n so that long loops do not nest deeply.  phash_offs      *)
(* starts zeroed: the array is zero after construction and every call      *)
(* sorts a buffer that is at least as long as the one before, so it        *)
(* overwrites every entry an earlier call wrote.  Both arrays are rebuilt  *)
(* by every process_input before find_repetition reads them.               *)
(***************************************************************************)
U16_MAX == 65535

pair_hash_at(work, pos) == byte_pair_hash(work_at(work, pos), work_at(work, pos + 1))

count_pair(counting, work) ==
  [pos   |-> counting.pos + 1,
   table |-> IF /\ counting.pos + 1 < WORK_BUFF_SIZE
                /\ pair_hash_at(work, counting.pos) < HASH_TABLE_SIZE
             THEN [counting.table EXCEPT ![pair_hash_at(work, counting.pos)] =
                                           Min(@ + 1, U16_MAX)]
             ELSE counting.table]

RECURSIVE count_pairs(_, _, _, _)
count_pairs(counting, work, buffer_end, n) ==
  IF n = 0 \/ counting.pos >= buffer_end - 1 THEN counting
  ELSE IF n = 1 THEN count_pair(counting, work)
  ELSE count_pairs(count_pairs(counting, work, buffer_end, n \div 2), work, buffer_end,
                   n - (n \div 2))

add_count(sums) ==
  [hash      |-> sums.hash + 1,
   total_sum |-> Min(sums.total_sum + sums.table[sums.hash], U16_MAX),
   table     |-> [sums.table EXCEPT ![sums.hash] = Min(sums.total_sum + @, U16_MAX)]]

RECURSIVE cumulative_counts(_, _)
cumulative_counts(sums, n) ==
  IF n = 0 \/ sums.hash >= HASH_TABLE_SIZE THEN sums
  ELSE IF n = 1 THEN add_count(sums)
  ELSE cumulative_counts(cumulative_counts(sums, n \div 2), n - (n \div 2))

place_at(placing, hash, index, offset) ==
  [next           |-> placing.next - 1,
   phash_to_index |-> [placing.phash_to_index EXCEPT ![hash] = index],
   phash_offs     |-> IF index < WORK_BUFF_SIZE
                      THEN [placing.phash_offs EXCEPT ![index] = offset % (U16_MAX + 1)]
                      ELSE placing.phash_offs]

place_pair_then_decrement(placing, work, buffer_begin) ==
  IF /\ placing.next < WORK_BUFF_SIZE
     /\ pair_hash_at(work, placing.next - 1) < HASH_TABLE_SIZE
  THEN [place_at(placing, pair_hash_at(work, placing.next - 1),
                 placing.phash_to_index[pair_hash_at(work, placing.next - 1)],
                 placing.next - 1 - buffer_begin)
          EXCEPT !.phash_to_index[pair_hash_at(work, placing.next - 1)] =
                   IF @ > 0 THEN @ - 1 ELSE 0]
  ELSE [placing EXCEPT !.next = @ - 1]

place_pair(placing, work, buffer_begin) ==
  IF /\ placing.next < WORK_BUFF_SIZE
     /\ pair_hash_at(work, placing.next - 1) < HASH_TABLE_SIZE
  THEN place_at(placing, pair_hash_at(work, placing.next - 1),
                IF placing.phash_to_index[pair_hash_at(work, placing.next - 1)] > 0
                THEN placing.phash_to_index[pair_hash_at(work, placing.next - 1)] - 1
                ELSE 0,
                placing.next - 1 - buffer_begin)
  ELSE [placing EXCEPT !.next = @ - 1]

RECURSIVE place_pairs(_, _, _, _)
place_pairs(placing, work, buffer_begin, n) ==
  IF n = 0 \/ placing.next <= buffer_begin THEN placing
  ELSE IF n = 1 THEN place_pair(placing, work, buffer_begin)
  ELSE place_pairs(place_pairs(placing, work, buffer_begin, n \div 2), work, buffer_begin,
                   n - (n \div 2))

zero_tables ==
  [phash_to_index |-> [hash \in 0 .. (HASH_TABLE_SIZE - 1) |-> 0],
   phash_offs     |-> [index \in 0 .. (WORK_BUFF_SIZE - 1) |-> 0]]

sort_buffer(work, buffer_begin, buffer_end) ==
  IF buffer_end <= buffer_begin + 1 THEN zero_tables
  ELSE place_pairs(
         [next |-> buffer_end - 1,
          phash_to_index |->
            cumulative_counts(
              [hash |-> 0, total_sum |-> 0,
               table |-> count_pairs([pos |-> buffer_begin,
                                      table |-> zero_tables.phash_to_index],
                                     work, buffer_end, buffer_end - buffer_begin).table],
              HASH_TABLE_SIZE).table,
          phash_offs |-> zero_tables.phash_offs],
         work, buffer_begin, buffer_end - buffer_begin)

phash_to_index(idx, hash) == idx.phash_to_index[hash]

phash_offs(idx, index) == idx.phash_offs[index]

(***************************************************************************)
(* ImplodeState::get_hash_index / get_hash_offset / find_hash_positions    *)
(***************************************************************************)
get_hash_index(idx, hash) ==
  IF hash < HASH_TABLE_SIZE
  THEN LET index == phash_to_index(idx, hash)
       IN  IF index < WORK_BUFF_SIZE /\ phash_offs(idx, index) # 0 THEN index ELSE NONE
  ELSE NONE

get_hash_offset(idx, index) ==
  IF index < WORK_BUFF_SIZE /\ phash_offs(idx, index) > 0 THEN phash_offs(idx, index) ELSE NONE

hash_chain_end(idx, start_index, current_pos) ==
  LET stop_index == first_true([i \in start_index .. (WORK_BUFF_SIZE - 1) |->
                                  \/ get_hash_offset(idx, i) = NONE
                                  \/ get_hash_offset(idx, i) >= current_pos],
                               start_index, WORK_BUFF_SIZE - 1)
  IN  IF stop_index = NONE THEN WORK_BUFF_SIZE ELSE stop_index

hash_chain(idx, start_index, last, min_offset, current_pos) ==
  SelectSeq([j \in 1 .. (last - start_index) |-> phash_offs(idx, start_index + j - 1)],
            LAMBDA offset : offset >= min_offset /\ offset < current_pos)

hash_positions_from(idx, start_index, min_offset, current_pos) ==
  IF start_index = NONE THEN << >>
  ELSE hash_chain(idx, start_index, hash_chain_end(idx, start_index, current_pos),
                  min_offset, current_pos)

find_hash_positions(idx, dsize_bytes, hash, current_pos) ==
  hash_positions_from(idx, get_hash_index(idx, hash),
                      IF current_pos > dsize_bytes THEN current_pos - dsize_bytes ELSE 0,
                      current_pos)

(***************************************************************************)
(* ImplodeState::compare_sequences / find_run_length_match                 *)
(***************************************************************************)
length_or(stop, max_length, least) ==
  IF stop # NONE THEN stop
  ELSE IF max_length > least THEN max_length ELSE least

compare_sequences(work, pos1, pos2, max_length) ==
  IF pos1 + 1 >= WORK_BUFF_SIZE \/ pos2 + 1 >= WORK_BUFF_SIZE THEN 0
  ELSE IF work_at(work, pos1) # work_at(work, pos2)
          \/ work_at(work, pos1 + 1) # work_at(work, pos2 + 1) THEN 0
  ELSE length_or(first_true([l \in 2 .. (max_length - 1) |->
                               \/ pos1 + l >= WORK_BUFF_SIZE
                               \/ pos2 + l >= WORK_BUFF_SIZE
                               \/ work_at(work, pos1 + l) # work_at(work, pos2 + l)],
                            2, max_length - 1),
                 max_length, 2)

find_run_length_match(work, pos, max_length) ==
  IF pos >= WORK_BUFF_SIZE THEN 0
  ELSE length_or(first_true([l \in 1 .. (max_length - 1) |->
                               \/ pos + l >= WORK_BUFF_SIZE
                               \/ work_at(work, pos + l) # work_at(work, pos)],
                            1, max_length - 1),
                 max_length, 1)

(***************************************************************************)
(* ImplodeState::find_repetition.  check_position is the body of the loop  *)
(* over the candidate positions: acc.best is best_match and acc.stop tells *)
(* that the loop took its break; run_candidate and sequence_candidate are  *)
(* its two branches, given the match length found.  best_in runs the loop  *)
(* over candidates lo .. hi in order, halving the range.                   *)
(***************************************************************************)
no_match == [length |-> 0, distance |-> 0]

is_match(m) == m.length >= 2

run_candidate(acc, match_length, distance) ==
  IF match_length > acc.best.length
  THEN [acc EXCEPT !.best = [length |-> match_length, distance |-> distance]]
  ELSE acc

sequence_candidate(acc, match_length, distance) ==
  IF \/ match_length > acc.best.length
     \/ (match_length = acc.best.length /\ distance < acc.best.distance)
  THEN [best |-> [length |-> match_length, distance |-> distance],
        stop |-> match_length >= MAX_REP_LENGTH]
  ELSE acc

check_position(work, input_pos, min_offset, max_length, acc, match_pos) ==
  IF match_pos >= input_pos \/ match_pos < min_offset THEN acc
  ELSE IF input_pos - match_pos = 1
  THEN run_candidate(acc, find_run_length_match(work, input_pos, max_length),
                     input_pos - match_pos)
  ELSE sequence_candidate(acc, compare_sequences(work, input_pos, match_pos, max_length),
                          input_pos - match_pos)

RECURSIVE best_in(_, _, _, _, _, _, _, _)
best_in(work, positions, lo, hi, input_pos, min_offset, max_length, acc) ==
  IF acc.stop \/ lo > hi THEN acc
  ELSE IF lo = hi
  THEN check_position(work, input_pos, min_offset, max_length, acc, positions[lo])
  ELSE best_in(work, positions, ((lo + hi) \div 2) + 1, hi, input_pos, min_offset, max_length,
               best_in(work, positions, lo, (lo + hi) \div 2, input_pos, min_offset,
                       max_length, acc))

select_match_any(best_match) == best_match

select_match(best_match) ==
  IF is_match(best_match) /\ best_match.length = 2 /\ best_match.distance >= 256
  THEN no_match
  ELSE best_match

repetition_among(work, positions, input_pos, min_offset, max_length) ==
  IF positions = << >> THEN no_match
  ELSE select_match(best_in(work, positions, 1, Len(positions), input_pos, min_offset,
                            max_length, [best |-> no_match, stop |-> FALSE]).best)

find_repetition(work, dsize_bytes, idx, input_pos) ==
  IF input_pos + 1 >= Len(work) THEN no_match
  ELSE repetition_among(
         work,
         find_hash_positions(idx, dsize_bytes,
                             byte_pair_hash(work_at(work, input_pos),
                                            work_at(work, input_pos + 1)),
                             input_pos),
         input_pos,
         IF input_pos > dsize_bytes THEN input_pos - dsize_bytes ELSE 0,
         Min(Len(work) - input_pos, MAX_REP_LENGTH))

(***************************************************************************)
(* ImplodeWriter::compress_buffer.  `pos` is the local of that name;       *)
(* encode_at is the body of the while loop given the result of             *)
(* find_repetition, compress_pass one pass of the loop, compress_from at   *)
(* most n passes (halving n so that long loops do not nest deeply; every   *)
(* pass advances pos, so work_bytes passes end the loop), and              *)
(* compress_last the encoding of the last byte.                            *)
(***************************************************************************)
record_search(w, pos, match_result) ==
  [w EXCEPT !.searches = Append(@, [pos |-> pos, found |-> match_result,
                                    work_bytes |-> work_bytes(w)])]

encode_at(w, idx, pos, match_result) ==
  IF is_match(match_result)
  THEN [encode_match(record_search(w, pos, match_result), pos,
                     match_result.length, match_result.distance)
          EXCEPT !.distance = match_result.distance - 1,
                 !.pos = pos + match_result.length]
  ELSE [encode_literal(record_search(w, pos, match_result), work_at(w.work_buff, pos))
          EXCEPT !.pos = pos + 1]

in_loop(w) ==
  ~w.err /\ w.pos < (IF work_bytes(w) > 0 THEN work_bytes(w) - 1 ELSE 0)

compress_pass(w, idx) ==
  encode_at(w, idx, w.pos, find_repetition(w.work_buff, w.dsize_bytes, idx, w.pos))

RECURSIVE compress_from(_, _, _)
compress_from(w, idx, n) ==
  IF n = 0 \/ ~in_loop(w) THEN w
  ELSE IF n = 1 THEN compress_pass(w, idx)
  ELSE compress_from(compress_from(w, idx, n \div 2), idx, n - (n \div 2))

compress_last(w) ==
  IF w.err THEN w
  ELSE IF w.pos < work_bytes(w)
  THEN encode_literal(w, work_at(w.work_buff, w.pos))
  ELSE w

compress_buffer(w, idx) ==
  compress_last(compress_from([w EXCEPT !.pos = 0], idx, work_bytes(w)))

(***************************************************************************)
(* ImplodeWriter::process_input: move_input copies what fits of the        *)
(* pending input into the work buffer and removes it from input_buffer;    *)
(* compress_work sorts and compresses the work buffer: sort_buffer has     *)
(* returned before the loop of compress_buffer starts, so idx ranges over  *)
(* the one value of the sorted tables.                                     *)
(***************************************************************************)
move_input(w0) ==
  LET input_len == Len(w0.input_buffer)
      copy_len  == Min(input_len, WORK_BUFF_SIZE - work_bytes(w0))
  IN  IF copy_len > 0
      THEN [w0 EXCEPT !.work_buff = @ \o SubSeq(w0.input_buffer, 1, copy_len),
                      !.input_buffer = SubSeq(@, copy_len + 1, input_len)]
      ELSE w0

compress_work(w1) ==
  IF work_bytes(w1) > 1
  THEN CHOOSE w2 \in {compress_buffer(w1, idx) :
                        idx \in {sort_buffer(w1.work_buff, 0, work_bytes(w1))}} : TRUE
  ELSE w1

process_initialized(w0) ==
  IF Len(w0.input_buffer) = 0 THEN w0 ELSE compress_work(move_input(w0))

process_input(w) == process_initialized(initialize(w))

(***************************************************************************)
(* ImplodeWriter::write_end_marker / flush_remaining_data                  *)
(***************************************************************************)
pad_final_byte(w1) ==
  IF w1.out_bits > 0 THEN [w1 EXCEPT !.out_bytes = @ + 1] ELSE w1

pad_without_end_marker(w) == pad_final_byte(w)

write_end_marker(w) ==
  pad_final_byte(IF END_MARKER < LITERALS_COUNT
                 THEN [emit_literal(w, literal_table(w.ctype)[END_MARKER])
                         EXCEPT !.eos = @ + 1]
                 ELSE w)

flush_remaining_data(w) ==
  IF w.input_buffer # << >> THEN process_input(w) ELSE w

(***************************************************************************)
(* Drop for ImplodeWriter: errors of the three calls are ignored.          *)
(***************************************************************************)
drop(w) ==
  IF ~w.finished
  THEN [flush_output_buffer(write_end_marker([flush_remaining_data(w) EXCEPT !.err = FALSE]))
          EXCEPT !.err = FALSE]
  ELSE w

(***************************************************************************)
(* ImplodeWriter::finish.  finish takes the writer by value: when          *)
(* flush_remaining_data returns Err the `?` returns early and the writer   *)
(* is dropped; on the Ok path ManuallyDrop suppresses the drop.            *)
(* finish_flushed is finish after flush_remaining_data.                    *)
(***************************************************************************)
finish_flushed(w1) ==
  IF w1.err THEN [drop(w1) EXCEPT !.err = TRUE]
  ELSE [flush_output_buffer(write_end_marker(w1)) EXCEPT !.finished = TRUE]

finish(w) ==
  IF ~w.finished
  THEN finish_flushed(flush_remaining_data(IF ~w.initialized THEN initialize(w) ELSE w))
  ELSE w

(***************************************************************************)
(* Write for ImplodeWriter: write / flush                                  *)
(***************************************************************************)
process_if_enough(w1) ==
  IF Len(w1.input_buffer) >= WRITE_THRESHOLD THEN process_input(w1) ELSE w1

write(w, buf) == process_if_enough([w EXCEPT !.input_buffer = @ \o buf, !.err = FALSE])

flush_processed(w1) == IF w1.err THEN w1 ELSE flush_output_buffer(w1)

flush(w) == flush_processed(process_input([w EXCEPT !.err = FALSE]))
(***************************************************************************)
(* Explode (decompression): constants of explode/mod.rs.                   *)
(***************************************************************************)
IN_BUFF_SIZE == 2048

EXPLODE_OUT_BUFF_SIZE == 8708

PKDCL_OK == 0

PKDCL_STREAM_END == 1

LITERAL_END_OF_STREAM == 773

LITERAL_ERROR == 774

WINDOW_START == 4096

WINDOW_FLUSH == 8192

MIN_INPUT == 4

NoError == "none"

U32_BITS == 32

(***************************************************************************)
(* ExplodeReader::gen_decode_tabs.  Iteration i of the outer loop stores i *)
(* at every index start_indexes[i] + k * 2^length_bits[i] below 0x100; the *)
(* loop runs i upwards, so an entry ends as the largest i that stored      *)
(* there, and stays 0 where no iteration stored.                           *)
(***************************************************************************)
SetMax(S) == CHOOSE m \in S : \A o \in S : o <= m

SetMin(S) == CHOOSE m \in S : \A o \in S : m <= o

stores_at(start, add, limit, x) ==
  x >= start /\ x < limit /\ (x - start) % add = 0

gen_decode_tabs(start_indexes, length_bits) ==
  [x \in 0 .. 255 |->
     LET stored == {i \in DOMAIN start_indexes :
                      stores_at(start_indexes[i], Pow2(length_bits[i]), 256, x)}
     IN  IF stored = {} THEN 0 ELSE SetMax(stored)]

length_codes == Idx0(SeqOf(gen_decode_tabs(LEN_CODE, LEN_BITS), 0, 256))

dist_pos_codes == Idx0(SeqOf(gen_decode_tabs(DIST_CODE, DIST_BITS), 0, 256))

(***************************************************************************)
(* ExplodeReader::gen_asc_tabs.  The loop runs count from 0xFF down to 0,  *)
(* so an entry of a lookup table ends with what the smallest count that    *)
(* stored there wrote.  asc_case names the branch the loop body takes for  *)
(* a count: 1 for codes of at most 8 bits, 2 and 3 for longer codes with a *)
(* non-zero low byte (2: low six bits non-zero), 4 for a zero low byte.    *)
(***************************************************************************)
asc_case(count) ==
  IF CH_BITS_ASC[count] <= 8 THEN 1
  ELSE IF CH_CODE_ASC[count] % 256 # 0
       THEN IF CH_CODE_ASC[count] % 64 # 0 THEN 2 ELSE 3
       ELSE 4

ch_bits_asc ==
  Idx0([c \in 1 .. 256 |->
          LET count == c - 1
              bits_asc == CH_BITS_ASC[count]
          IN  CASE asc_case(count) = 1 -> bits_asc
                [] asc_case(count) = 2 -> bits_asc - 4
                [] asc_case(count) = 3 -> bits_asc - 6
                [] asc_case(count) = 4 -> bits_asc - 8] \o << >>)

offs_2c34 ==
  Idx0([x1 \in 1 .. 256 |->
          LET x == x1 - 1
              stored == {count \in 0 .. 255 :
                           \/ /\ asc_case(count) = 1
                              /\ stores_at(CH_CODE_ASC[count],
                                           Pow2(CH_BITS_ASC[count]), 256, x)
                           \/ /\ asc_case(count) \in {2, 3}
                              /\ x = CH_CODE_ASC[count] % 256}
          IN  IF stored = {} THEN 0
              ELSE IF asc_case(SetMin(stored)) = 1 THEN SetMin(stored) ELSE 255]
       \o << >>)

offs_2d34 ==
  Idx0([x1 \in 1 .. 256 |->
          LET x == x1 - 1
              stored == {count \in 0 .. 255 :
                           /\ asc_case(count) = 2
                           /\ stores_at(Shr(CH_CODE_ASC[count], 4),
                                        Pow2(CH_BITS_ASC[count] - 4), 256, x)}
          IN  IF stored = {} THEN 0 ELSE SetMin(stored)] \o << >>)

offs_2e34 ==
  Idx0([x1 \in 1 .. 128 |->
          LET x == x1 - 1
              stored == {count \in 0 .. 255 :
                           /\ asc_case(count) = 3
                           /\ stores_at(Shr(CH_CODE_ASC[count], 6),
                                        Pow2(CH_BITS_ASC[count] - 6), 128, x)}
          IN  IF stored = {} THEN 0 ELSE SetMin(stored)] \o << >>)

offs_2eb4 ==
  Idx0([x1 \in 1 .. 256 |->
          LET x == x1 - 1
              stored == {count \in 0 .. 255 :
                           /\ asc_case(count) = 4
                           /\ stores_at(Shr(CH_CODE_ASC[count], 8),
                                        Pow2(CH_BITS_ASC[count] - 8), 256, x)}
          IN  IF stored = {} THEN 0 ELSE SetMin(stored)] \o << >>)
(***************************************************************************)
(* ExplodeState::new and ExplodeReader::new.  `reader` is the source, a    *)
(* cursor over the compressed bytes.  in_buff is held as the bytes of the  *)
(* last load (in_bytes of them); out_buff is held as two byte sequences,   *)
(* `low` from index 0 and `high` from index WINDOW_START, each up to the   *)
(* last index stored so far, every other entry of the array being zero.    *)
(* `ret` is the value returned by the last call, `err` the                 *)
(* PkLibError variant of the last call (NoError for Ok), `buf` the bytes   *)
(* the last read copied into the caller's buffer.  bytes_written and brk   *)
(* are the locals of expand's loop.  `panic` records an index out of       *)
(* bounds or an arithmetic overflow, and `decoded` the bytes that expand   *)
(* has written into out_buff at output_pos, in the order written.          *)
(***************************************************************************)
Cursor(data) == [data |-> data, pos |-> 0]

cursor_read(c, max) ==
  LET n == Min(max, Len(c.data) - c.pos)
  IN  [reader |-> [c EXCEPT !.pos = @ + n], bytes |-> SubSeq(c.data, c.pos + 1, c.pos + n)]

(***************************************************************************)
(* A source that returns its data in pieces: the k-th call of read returns *)
(* at most sizes[k] bytes, and the calls after the last size as many as    *)
(* the buffer takes.  source_read is reader.read(&mut in_buff) for the     *)
(* generic R: Read, over a Cursor or over such a source.                   *)
(***************************************************************************)
Chunked(data, sizes) == [data |-> data, pos |-> 0, sizes |-> sizes]

chunked_read(c, max) ==
  LET limit == IF c.sizes = << >> THEN max ELSE Min(max, Head(c.sizes))
      n     == Min(limit, Len(c.data) - c.pos)
  IN  [reader |-> [c EXCEPT !.pos = @ + n,
                            !.sizes = IF @ = << >> THEN @ ELSE Tail(@)],
       bytes  |-> SubSeq(c.data, c.pos + 1, c.pos + n)]

source_read(c, max) ==
  IF "sizes" \in DOMAIN c THEN chunked_read(c, max) ELSE cursor_read(c, max)

ExplodeState_new ==
  [ ctype      |-> Binary,
    output_pos |-> WINDOW_START,
    dsize_bits |-> 0,
    dsize_mask |-> 0,
    bit_buff   |-> 0,
    extra_bits |-> 0,
    in_pos     |-> 0,
    in_bytes   |-> 0,
    out_buff   |-> [low |-> << >>, high |-> << >>],
    in_buff    |-> << >> ]

ExplodeReader_new(data) ==
  [ reader        |-> Cursor(data),
    state         |-> ExplodeState_new,
    initialized   |-> FALSE,
    finished      |-> FALSE,
    output_buffer |-> << >>,
    output_pos    |-> 0,
    ret           |-> 0,
    err           |-> NoError,
    buf           |-> << >>,
    bytes_written |-> 0,
    brk           |-> FALSE,
    panic         |-> FALSE,
    decoded       |-> << >> ]

ExplodeReader_over(source) == [ExplodeReader_new(<< >>) EXCEPT !.reader = source]

out_at(out_buff, i) ==
  IF i < WINDOW_START
  THEN IF i < Len(out_buff.low) THEN out_buff.low[i + 1] ELSE 0
  ELSE IF i - WINDOW_START < Len(out_buff.high)
       THEN out_buff.high[i - WINDOW_START + 1] ELSE 0

out_slice(out_buff, from, to) ==
  [k \in 1 .. (to - from) |-> out_at(out_buff, from + k - 1)] \o << >>

seq_store(s, offset, bytes) ==
  [k \in 1 .. (IF Len(s) > offset + Len(bytes) THEN Len(s) ELSE offset + Len(bytes)) |->
     IF k > offset /\ k <= offset + Len(bytes) THEN bytes[k - offset]
     ELSE IF k <= Len(s) THEN s[k] ELSE 0] \o << >>

out_store(out_buff, pos, bytes) ==
  LET below == IF pos < WINDOW_START THEN Min(Len(bytes), WINDOW_START - pos) ELSE 0
      low1  == IF below > 0
               THEN seq_store(out_buff.low, pos, SubSeq(bytes, 1, below))
               ELSE out_buff.low
      high1 == IF below < Len(bytes)
               THEN seq_store(out_buff.high, pos + below - WINDOW_START,
                              SubSeq(bytes, below + 1, Len(bytes)))
               ELSE out_buff.high
  IN  [low |-> low1, high |-> high1]

lookup(table, i) == IF i \in DOMAIN table THEN table[i] ELSE 0

(***************************************************************************)
(* ExplodeReader::initialize                                               *)
(***************************************************************************)
reader_initialize(r) ==
  IF r.initialized THEN [r EXCEPT !.err = NoError]
  ELSE
    LET chunk == source_read(r.reader, IN_BUFF_SIZE)
        r1 == [r EXCEPT !.reader = chunk.reader,
                        !.state.in_buff = chunk.bytes,
                        !.state.in_bytes = Len(chunk.bytes)]
    IN  IF r1.state.in_bytes <= MIN_INPUT THEN [r1 EXCEPT !.err = "InvalidData"]
        ELSE IF r1.state.in_buff[1] \notin {Binary, ASCII}
        THEN [r1 EXCEPT !.err = "InvalidCompressionMode"]
        ELSE
          LET r2 == [r1 EXCEPT !.state.ctype = r1.state.in_buff[1],
                               !.state.dsize_bits = r1.state.in_buff[2],
                               !.state.bit_buff = r1.state.in_buff[3],
                               !.state.extra_bits = 0,
                               !.state.in_pos = 3]
          IN  IF r2.state.dsize_bits < 4 \/ r2.state.dsize_bits > 6
              THEN [r2 EXCEPT !.err = "InvalidDictionaryBits"]
              ELSE [r2 EXCEPT !.state.dsize_mask = Shr(65535, 16 - r2.state.dsize_bits),
                              !.initialized = TRUE,
                              !.err = NoError]

(***************************************************************************)
(* ExplodeState::waste_bits.  load_input_buffer is the refill of in_buff   *)
(* when it is used up; update_bit_buffer is the rest of the function, run  *)
(* on the state load_input_buffer left, with the extra_bits of entry.      *)
(***************************************************************************)
load_input_buffer(r) ==
  IF r.state.in_pos >= r.state.in_bytes
  THEN LET chunk == source_read(r.reader, IN_BUFF_SIZE)
       IN  [r EXCEPT !.state.in_pos = 0,
                     !.reader = chunk.reader,
                     !.state.in_buff = chunk.bytes,
                     !.state.in_bytes = Len(chunk.bytes),
                     !.ret = IF Len(chunk.bytes) = 0 THEN PKDCL_STREAM_END ELSE PKDCL_OK]
  ELSE [r EXCEPT !.ret = PKDCL_OK]

update_bit_buffer(r1, n_bits, extra_bits) ==
  IF r1.ret = PKDCL_STREAM_END THEN r1
  ELSE
    LET s1     == r1.state
        loaded == s1.in_pos < s1.in_bytes
        filled == IF loaded
                  THEN BitOr(s1.bit_buff, Shl(s1.in_buff[s1.in_pos + 1], 8))
                  ELSE s1.bit_buff
    IN  [r1 EXCEPT !.state.bit_buff = Shr(filled, n_bits - extra_bits),
                   !.state.in_pos = IF loaded THEN @ + 1 ELSE @,
                   !.state.extra_bits = (extra_bits + 8) - n_bits,
                   !.panic = @ \/ n_bits > extra_bits + 8
                               \/ n_bits - extra_bits >= U32_BITS,
                   !.ret = PKDCL_OK]

waste_bits(r, n_bits) ==
  IF n_bits <= r.state.extra_bits
  THEN [r EXCEPT !.state.extra_bits = @ - n_bits,
                 !.state.bit_buff = Shr(@, n_bits),
                 !.ret = PKDCL_OK]
  ELSE update_bit_buffer(
         load_input_buffer([r EXCEPT !.state.bit_buff = Shr(@, r.state.extra_bits)]),
         n_bits, r.state.extra_bits)

(***************************************************************************)
(* ExplodeState::decode_lit: `ret` is the decoded literal.  Each operator  *)
(* below is the part of decode_lit that follows one call of waste_bits,    *)
(* applied to the state that call left.  offs_2e34_index is the index into *)
(* the 0x80-entry table offs_2e34.                                         *)
(***************************************************************************)
offs_2e34_index_byte(bit_buff) == bit_buff % 256

offs_2e34_index(bit_buff) == bit_buff % 128

decode_length_extra_code(r3, length_code, extra_length) ==
  IF r3.ret # PKDCL_OK /\ length_code + extra_length # 270
  THEN [r3 EXCEPT !.ret = LITERAL_ERROR]
  ELSE [r3 EXCEPT !.ret = length_code + extra_length + 256]

decode_length_extra(r3, length_code, extra_length) ==
  IF r3.ret # PKDCL_OK /\ length_code + extra_length # 270
  THEN [r3 EXCEPT !.ret = LITERAL_ERROR]
  ELSE [r3 EXCEPT !.ret = lookup(LEN_BASE, length_code) + extra_length + 256]

decode_length_bits(r2, length_code) ==
  IF r2.ret # PKDCL_OK THEN [r2 EXCEPT !.ret = LITERAL_ERROR]
  ELSE
    LET extra_length_bits == lookup(EX_LEN_BITS, length_code)
    IN  IF extra_length_bits # 0
        THEN decode_length_extra(
               waste_bits([r2 EXCEPT !.panic = @ \/ extra_length_bits >= U32_BITS],
                          extra_length_bits),
               length_code,
               r2.state.bit_buff % Pow2(extra_length_bits))
        ELSE [r2 EXCEPT !.ret = length_code + 256]

decode_length(r1) ==
  IF r1.ret # PKDCL_OK THEN [r1 EXCEPT !.ret = LITERAL_ERROR]
  ELSE
    LET code_index  == r1.state.bit_buff % 256
        length_code == lookup(length_codes, code_index)
    IN  decode_length_bits(
          waste_bits([r1 EXCEPT !.panic = @ \/ code_index \notin DOMAIN length_codes
                                            \/ length_code \notin DOMAIN LEN_BITS],
                     lookup(LEN_BITS, length_code)),
          length_code)

decode_binary_byte(r2, uncompressed_byte) ==
  IF r2.ret # PKDCL_OK THEN [r2 EXCEPT !.ret = LITERAL_ERROR]
  ELSE [r2 EXCEPT !.ret = uncompressed_byte]

decode_offs_2d34(r2) ==
  IF r2.ret # PKDCL_OK THEN [r2 EXCEPT !.ret = LITERAL_ERROR]
  ELSE [r2 EXCEPT !.ret = lookup(offs_2d34, r2.state.bit_buff % 256),
                  !.panic = @ \/ (r2.state.bit_buff % 256) \notin DOMAIN offs_2d34]

decode_offs_2e34(r2) ==
  IF r2.ret # PKDCL_OK THEN [r2 EXCEPT !.ret = LITERAL_ERROR]
  ELSE [r2 EXCEPT !.ret = lookup(offs_2e34, offs_2e34_index(r2.state.bit_buff)),
                  !.panic = @ \/ offs_2e34_index(r2.state.bit_buff) \notin DOMAIN offs_2e34]

decode_offs_2eb4(r2) ==
  IF r2.ret # PKDCL_OK THEN [r2 EXCEPT !.ret = LITERAL_ERROR]
  ELSE [r2 EXCEPT !.ret = lookup(offs_2eb4, r2.state.bit_buff % 256),
                  !.panic = @ \/ (r2.state.bit_buff % 256) \notin DOMAIN offs_2eb4]

decode_ascii_value(r1) ==
  IF r1.state.bit_buff % 256 # 0
  THEN IF lookup(offs_2c34, r1.state.bit_buff % 256) = 255
       THEN IF r1.state.bit_buff % 64 # 0
            THEN decode_offs_2d34(waste_bits(r1, 4))
            ELSE decode_offs_2e34(waste_bits(r1, 6))
       ELSE [r1 EXCEPT !.ret = lookup(offs_2c34, r1.state.bit_buff % 256)]
  ELSE decode_offs_2eb4(waste_bits(r1, 8))

decode_ascii_final(r3, value) ==
  IF r3.ret # PKDCL_OK THEN [r3 EXCEPT !.ret = LITERAL_ERROR]
  ELSE [r3 EXCEPT !.ret = value]

decode_ascii_bits(v) ==
  IF v.ret = LITERAL_ERROR THEN v
  ELSE decode_ascii_final(
         waste_bits([v EXCEPT !.panic = @ \/ v.ret \notin DOMAIN ch_bits_asc],
                    lookup(ch_bits_asc, v.ret)),
         v.ret)

decode_byte(r1) ==
  IF r1.ret # PKDCL_OK THEN [r1 EXCEPT !.ret = LITERAL_ERROR]
  ELSE IF r1.state.ctype = Binary
  THEN decode_binary_byte(waste_bits(r1, 8), r1.state.bit_buff % 256)
  ELSE decode_ascii_bits(decode_ascii_value(r1))

decode_lit(r) ==
  IF r.state.bit_buff % 2 # 0
  THEN decode_length(waste_bits(r, 1))
  ELSE decode_byte(waste_bits(r, 1))

(***************************************************************************)
(* ExplodeState::decode_dist: `ret` is the distance, 0 when the input ran  *)
(* out.                                                                    *)
(***************************************************************************)
decode_dist_low_raw(r2, dist) ==
  IF r2.ret # PKDCL_OK THEN [r2 EXCEPT !.ret = 0]
  ELSE [r2 EXCEPT !.ret = dist]

decode_dist_low(r2, dist) ==
  IF r2.ret # PKDCL_OK THEN [r2 EXCEPT !.ret = 0]
  ELSE [r2 EXCEPT !.ret = dist + 1]

decode_dist_bits(r1, dist_pos_code, rep_length) ==
  IF r1.ret # PKDCL_OK THEN [r1 EXCEPT !.ret = 0]
  ELSE IF rep_length = 2
  THEN decode_dist_low(waste_bits(r1, 2),
                       BitOr(Shl(dist_pos_code, 2), r1.state.bit_buff % 4))
  ELSE decode_dist_low(waste_bits(r1, r1.state.dsize_bits),
                       BitOr(Shl(dist_pos_code, r1.state.dsize_bits),
                             r1.state.bit_buff % (r1.state.dsize_mask + 1)))

decode_dist(r, rep_length) ==
  LET code_index    == r.state.bit_buff % 256
      dist_pos_code == lookup(dist_pos_codes, code_index)
  IN  decode_dist_bits(
        waste_bits([r EXCEPT !.panic = @ \/ code_index \notin DOMAIN dist_pos_codes
                                         \/ dist_pos_code \notin DOMAIN DIST_BITS],
                   lookup(DIST_BITS, dist_pos_code)),
        dist_pos_code, rep_length)

(***************************************************************************)
(* ExplodeReader::expand.  expand_iteration is one pass of the main loop;  *)
(* brk tells that the loop was left (break or return).  expand_loop runs   *)
(* at most n passes, halving n so that long loops do not nest deeply.  A   *)
(* pass that does not leave the loop advances output_pos by at least one   *)
(* from WINDOW_START and the loop is left at WINDOW_FLUSH, which bounds    *)
(* the number of passes.                                                   *)
(***************************************************************************)
copy_repetition_snapshot(out_buff, source_pos, target_pos, rep_length) ==
  out_store(out_buff, target_pos,
            out_slice(out_buff, source_pos,
                      source_pos + Min(rep_length, EXPLODE_OUT_BUFF_SIZE - target_pos)))

copy_repetition(out_buff, source_pos, target_pos, rep_length) ==
  LET distance == target_pos - source_pos
      copied   == Min(rep_length, EXPLODE_OUT_BUFF_SIZE - target_pos)
  IN  out_store(out_buff, target_pos,
                [k \in 1 .. copied |->
                   out_at(out_buff, source_pos + ((k - 1) % distance))] \o << >>)

flush_window(r) ==
  IF r.state.output_pos >= WINDOW_FLUSH
  THEN
    LET copy_start == WINDOW_START
        copy_end   == Min(r.state.output_pos, WINDOW_FLUSH)
        r1 == IF copy_end > copy_start
              THEN [r EXCEPT !.output_buffer =
                               @ \o out_slice(r.state.out_buff, copy_start, copy_end),
                             !.bytes_written = @ + (copy_end - copy_start)]
              ELSE r
        remaining_bytes == r.state.output_pos - WINDOW_START
        r2 == IF remaining_bytes > 0 /\ remaining_bytes <= WINDOW_START
              THEN [r1 EXCEPT !.state.out_buff =
                                out_store(@, 0, out_slice(@, WINDOW_START,
                                                          r.state.output_pos))]
              ELSE r1
    IN  [r2 EXCEPT !.state.output_pos = remaining_bytes,
                   !.brk = r2.bytes_written > 0]
  ELSE r

record_decoded(r1, target_pos) ==
  [r1 EXCEPT !.decoded = @ \o out_slice(r1.state.out_buff, target_pos, r1.state.output_pos)]

literal_error_as_end(d) == [d EXCEPT !.brk = TRUE]

literal_error_ignored(d) == d

literal_error(d) == [d EXCEPT !.err = "DecompressionError", !.brk = TRUE]

expand_repetition_unchecked(dd, rep_length) ==
  LET minus_dist == dd.ret
      target_pos == dd.state.output_pos
      source_pos == IF target_pos > minus_dist THEN target_pos - minus_dist ELSE 0
  IN  IF minus_dist = 0 THEN [dd EXCEPT !.err = "DecompressionError", !.brk = TRUE]
      ELSE flush_window(
             record_decoded(
               [dd EXCEPT !.state.out_buff =
                            copy_repetition(@, source_pos, target_pos, rep_length),
                          !.state.output_pos = @ + rep_length],
               target_pos))

expand_repetition(dd, rep_length) ==
  LET minus_dist == dd.ret
      target_pos == dd.state.output_pos
      source_pos == IF target_pos > minus_dist THEN target_pos - minus_dist ELSE 0
  IN  IF minus_dist = 0 THEN [dd EXCEPT !.err = "DecompressionError", !.brk = TRUE]
      ELSE IF \/ source_pos >= EXPLODE_OUT_BUFF_SIZE
              \/ target_pos + rep_length > EXPLODE_OUT_BUFF_SIZE
      THEN [dd EXCEPT !.err = "DecompressionError", !.brk = TRUE]
      ELSE flush_window(
             record_decoded(
               [dd EXCEPT !.state.out_buff =
                            copy_repetition(@, source_pos, target_pos, rep_length),
                          !.state.output_pos = @ + rep_length],
               target_pos))

expand_literal(d) ==
  IF d.ret = LITERAL_END_OF_STREAM
  THEN [d EXCEPT !.finished = TRUE, !.brk = TRUE]
  ELSE IF d.ret = LITERAL_ERROR
  THEN literal_error(d)
  ELSE IF d.ret >= 256
  THEN expand_repetition(decode_dist([d EXCEPT !.panic = @ \/ d.ret < 254], d.ret - 254),
                         d.ret - 254)
  ELSE IF d.state.output_pos < EXPLODE_OUT_BUFF_SIZE
  THEN flush_window(
         record_decoded(
           [d EXCEPT !.state.out_buff = out_store(@, d.state.output_pos, <<d.ret % 256>>),
                     !.state.output_pos = @ + 1],
           d.state.output_pos))
  ELSE [d EXCEPT !.err = "DecompressionError", !.brk = TRUE]

expand_iteration(r) == expand_literal(decode_lit(r))

RECURSIVE expand_loop(_, _)
expand_loop(r, n) ==
  IF r.brk \/ n = 0 THEN r
  ELSE IF n = 1 THEN expand_iteration(r)
  ELSE expand_loop(expand_loop(r, n \div 2), n - (n \div 2))

expand_finish(l) ==
  IF l.err # NoError THEN l
  ELSE IF l.finished /\ l.state.output_pos > WINDOW_START
  THEN [l EXCEPT !.output_buffer =
                   @ \o out_slice(l.state.out_buff, WINDOW_START, l.state.output_pos),
                 !.bytes_written = @ + (l.state.output_pos - WINDOW_START),
                 !.ret = l.bytes_written + (l.state.output_pos - WINDOW_START)]
  ELSE [l EXCEPT !.ret = l.bytes_written]

expand_initialized(r0) ==
  IF r0.err # NoError THEN r0
  ELSE IF r0.finished THEN [r0 EXCEPT !.ret = 0]
  ELSE expand_finish(
         expand_loop([r0 EXCEPT !.bytes_written = 0,
                                !.brk = FALSE,
                                !.state.output_pos = WINDOW_START],
                     WINDOW_FLUSH - WINDOW_START))

expand(r) ==
  expand_initialized(IF ~r.initialized THEN reader_initialize(r)
                     ELSE [r EXCEPT !.err = NoError])

(***************************************************************************)
(* Read for ExplodeReader: read into a buffer of buf_len bytes.  An Err of *)
(* expand is returned as an io::Error of kind InvalidData that wraps it;   *)
(* `err` keeps the wrapped variant.                                        *)
(***************************************************************************)
copy_out_skipping(r, buf_len) ==
  LET available == Len(r.output_buffer) - r.output_pos
      to_copy   == Min(buf_len, available)
  IN  [r EXCEPT !.buf = SubSeq(r.output_buffer, r.output_pos + 1, r.output_pos + to_copy),
                !.output_pos = @ + available,
                !.ret = to_copy,
                !.err = NoError]

copy_out(r, buf_len) ==
  LET available == Len(r.output_buffer) - r.output_pos
      to_copy   == Min(buf_len, available)
  IN  [r EXCEPT !.buf = SubSeq(r.output_buffer, r.output_pos + 1, r.output_pos + to_copy),
                !.output_pos = @ + to_copy,
                !.ret = to_copy,
                !.err = NoError]

clear_consumed(r1) ==
  IF r1.output_pos >= Len(r1.output_buffer)
  THEN [r1 EXCEPT !.output_buffer = << >>, !.output_pos = 0]
  ELSE r1

read_expanded(e, buf_len) ==
  IF e.err # NoError THEN e
  ELSE IF e.ret = 0 THEN e
  ELSE IF e.output_pos < Len(e.output_buffer) THEN copy_out(e, buf_len)
  ELSE [e EXCEPT !.ret = 0]

read(r, buf_len) ==
  IF r.output_pos < Len(r.output_buffer)
  THEN clear_consumed(copy_out(r, buf_len))
  ELSE IF r.finished THEN [r EXCEPT !.buf = << >>, !.ret = 0, !.err = NoError]
  ELSE read_expanded(expand([r EXCEPT !.buf = << >>]), buf_len)
(***************************************************************************)
(* AsyncImplodeWriter (async_implode.rs).  `writer` is the sink, `work`    *)
(* the first work_bytes bytes of state.work_buff; `pos` and `compressed`   *)
(* are the locals pos and output of compress_data and `err` tells that the *)
(* last call returned Err.  The pipeline buffers of the struct are never   *)
(* read or written.  async_encode_at is the body of the loop of            *)
(* compress_data given the result of find_repetition, async_compress_from  *)
(* at most n passes of the loop, write_chunk_full the loop of write_chunk  *)
(* over the full buffers of pending_input.                                 *)
(***************************************************************************)
ASYNC_BUFFER_SIZE == 65536

ASYNC_END_MARKER == <<5, 3>>

async_new(mode, dict_size) ==
  [ writer        |-> << >>,
    mode          |-> mode,
    dict_size     |-> dict_size,
    initialized   |-> FALSE,
    finished      |-> FALSE,
    buffer_size   |-> ASYNC_BUFFER_SIZE,
    pending_input |-> << >>,
    work          |-> << >>,
    pos           |-> 0,
    compressed    |-> << >>,
    err           |-> FALSE ]

async_initialize(a) ==
  IF a.initialized THEN a
  ELSE [a EXCEPT !.writer = @ \o <<a.mode, bits(a.dict_size)>>,
                 !.initialized = TRUE]

async_encode_at(a, match_result) ==
  IF is_match(match_result)
  THEN [a EXCEPT !.compressed = @ \o <<Min(match_result.length + 254, 255),
                                       Min(match_result.distance, 255)>>,
                 !.pos = @ + match_result.length]
  ELSE [a EXCEPT !.compressed = Append(@, work_at(a.work, a.pos)),
                 !.pos = @ + 1]

async_compress_pass(a, idx) ==
  async_encode_at(a, find_repetition(a.work, a.dict_size, idx, a.pos))

RECURSIVE async_compress_from(_, _, _)
async_compress_from(a, idx, n) ==
  IF n = 0 \/ a.pos >= Len(a.work) THEN a
  ELSE IF n = 1 THEN async_compress_pass(a, idx)
  ELSE async_compress_from(async_compress_from(a, idx, n \div 2), idx, n - (n \div 2))

compress_data(a, data) ==
  IF Len(data) > WORK_BUFF_SIZE THEN [a EXCEPT !.err = TRUE]
  ELSE IF Len(data) > 1
  THEN CHOOSE a1 \in {async_compress_from([a EXCEPT !.work = data, !.pos = 0,
                                                     !.compressed = << >>],
                                           idx, Len(data)) :
                        idx \in {sort_buffer(data, 0, Len(data))}} : TRUE
  ELSE [a EXCEPT !.work = data, !.compressed = << >>]

write_compressed(a1) ==
  IF a1.err THEN a1 ELSE [a1 EXCEPT !.writer = @ \o a1.compressed]

process_buffer(a, data) == write_compressed(compress_data(a, data))

RECURSIVE write_chunk_full(_)
write_chunk_full(a) ==
  IF a.err \/ Len(a.pending_input) < a.buffer_size THEN a
  ELSE write_chunk_full(
         process_buffer([a EXCEPT !.pending_input =
                                    SubSeq(@, a.buffer_size + 1, Len(@))],
                        SubSeq(a.pending_input, 1, a.buffer_size)))

write_chunk_initialized(a0, data) ==
  IF a0.finished THEN [a0 EXCEPT !.err = TRUE]
  ELSE write_chunk_full([a0 EXCEPT !.pending_input = @ \o data])

write_chunk(a, data) == write_chunk_initialized(async_initialize([a EXCEPT !.err = FALSE]), data)

async_finish_processed(a1) ==
  IF a1.err THEN a1
  ELSE [a1 EXCEPT !.writer = @ \o ASYNC_END_MARKER, !.finished = TRUE]

async_finish_initialized(a0) ==
  async_finish_processed(IF a0.pending_input # << >>
                         THEN process_buffer([a0 EXCEPT !.pending_input = << >>],
                                             a0.pending_input)
                         ELSE a0)

async_finish(a) ==
  IF a.finished THEN a
  ELSE async_finish_initialized(async_initialize([a EXCEPT !.err = FALSE]))

(***************************************************************************)
(* Inputs.  Chunks are the buffers passed to write; LargeInput is one      *)
(* buffer longer than the work buffer (a literal pair, sixteen runs of     *)
(* MAX_REP_LENGTH bytes and a shorter run), written as the first call to a *)
(* writer of LargeConfigs.  HostileStreams are the byte sequences given to *)
(* explode_bytes directly.  SearchInputs are the sequences of up to        *)
(* MaxWork bytes of SearchBytes, of which the pairs (0, 4) and (5, 0) have *)
(* the same byte_pair_hash; ImplodeInputs, the data of implode_bytes, are  *)
(* the shorter ones of them and the runs of MAX_REP_LENGTH and             *)
(* MAX_REP_LENGTH + 1 equal bytes.                                         *)
(***************************************************************************)
Bytes == {65, 255}

Chunks == UNION {[1 .. n -> Bytes] : n \in 1 .. MaxChunk}

LargeInput ==
  [i \in 1 .. (WORK_BUFF_SIZE + 1) |->
     IF i = 1 THEN 65 ELSE IF i <= 2 + 16 * MAX_REP_LENGTH THEN 66 ELSE 67] \o << >>

LargeConfigs == {<<Binary, 1024>>}

HostileBytes == {0, 1, 2, 4, 254, 255}

HostileStreams == UNION {[1 .. n -> HostileBytes] : n \in 0 .. MaxLen}

SearchBytes == {0, 4, 5}

SearchInputs == UNION {[1 .. n -> SearchBytes] : n \in 1 .. MaxWork}

RunInputs == {[i \in 1 .. n |-> byte] : n \in {MAX_REP_LENGTH, MAX_REP_LENGTH + 1}, byte \in Bytes}

ImplodeInputs == {data \in SearchInputs : Len(data) <= MaxInput} \cup RunInputs

(***************************************************************************)
(* FarInputs: the triple "1 2 3" at position 1, "1 2 4" at distance        *)
(* near_distance from it and "1 2 3" again at distance far_distance from   *)
(* the first, with bytes that repeat with period 240 between them.  The    *)
(* near distances are the two around the limit 0x100 of a length-2 match,  *)
(* the far distances every dictionary size and one more.                   *)
(***************************************************************************)
far_input(near_distance, far_distance) ==
  <<9, 1, 2, 3>> \o [i \in 1 .. (near_distance - 3) |-> 10 + (i % 240)]
    \o <<1, 2, 4>> \o [i \in 1 .. (far_distance - near_distance - 3) |-> 10 + (i % 240)]
    \o <<1, 2, 3, 8>>

FarInputs ==
  {far_input(near_distance, far_distance) :
     near_distance \in {255, 256},
     far_distance \in DictionarySizes \cup {dict_size + 1 : dict_size \in DictionarySizes}}

(***************************************************************************)
(* TieInputs: inputs in which candidates at several distances, distance 1  *)
(* among them, have the same common length with the searched position: a   *)
(* pair of zeros that recurs before a longer run of zeros, and a run of    *)
(* two times MAX_REP_LENGTH and some more equal bytes, in which the common *)
(* length of every candidate reaches the cap.                              *)
(***************************************************************************)
TieInputs ==
  { <<5, 0, 0, 4, 0, 0, 0, 0>>,
    <<9>> \o [i \in 1 .. (2 * MAX_REP_LENGTH + 8) |-> 7] }

NoCalls == [write |-> 0, flush |-> 0]

NoResult == [status |-> "none", variant |-> NoError, source |-> NoError]

(***************************************************************************)
(* implode_bytes: ImplodeWriter::new, one write of the data (write_all     *)
(* makes no call for empty data), finish.  The actions below are the       *)
(* public methods of the writer; implode_bytes is the run with at most one *)
(* Write and no Flush.                                                     *)
(***************************************************************************)
Init ==
  /\ \E mode \in {Binary, ASCII}, dict_size \in DictionarySizes :
       /\ implode_writer = new(mode, dict_size)
       /\ async_writer = async_new(mode, dict_size)
  /\ written = << >>
  /\ calls = NoCalls
  /\ phase = "open"
  /\ explode_reader = ExplodeReader_new(<< >>)
  /\ output = << >>
  /\ result = NoResult

Write ==
  /\ phase = "open"
  /\ \E chunk \in Chunks :
       /\ Len(written) + Len(chunk) <= MaxInput
       /\ implode_writer' = write(implode_writer, chunk)
       /\ written' = written \o chunk
  /\ calls' = [calls EXCEPT !.write = @ + 1]
  /\ UNCHANGED <<phase, explode_reader, output, result, async_writer>>

WriteLarge ==
  /\ phase = "open"
  /\ calls = NoCalls
  /\ <<implode_writer.ctype, implode_writer.dsize_bytes>> \in LargeConfigs
  /\ implode_writer' = write(implode_writer, LargeInput)
  /\ written' = LargeInput
  /\ calls' = [calls EXCEPT !.write = @ + 1]
  /\ UNCHANGED <<phase, explode_reader, output, result, async_writer>>

WriteAll ==
  /\ phase = "open"
  /\ calls = NoCalls
  /\ \E data \in ImplodeInputs :
       /\ implode_writer' = write(implode_writer, data)
       /\ written' = data
  /\ calls' = [calls EXCEPT !.write = @ + 1]
  /\ UNCHANGED <<phase, explode_reader, output, result, async_writer>>

WriteSearch ==
  /\ phase = "open"
  /\ calls = NoCalls
  /\ \E data \in SearchInputs :
       /\ implode_writer' = write(implode_writer, data)
       /\ written' = data
  /\ calls' = [calls EXCEPT !.write = @ + 1]
  /\ UNCHANGED <<phase, explode_reader, output, result, async_writer>>

WriteFar ==
  /\ phase = "open"
  /\ calls = NoCalls
  /\ \E data \in FarInputs \cup TieInputs :
       /\ implode_writer' = write(implode_writer, data)
       /\ written' = data
  /\ calls' = [calls EXCEPT !.write = @ + 1]
  /\ UNCHANGED <<phase, explode_reader, output, result, async_writer>>

(***************************************************************************)
(* implode_bytes_async: AsyncImplodeWriter::new, one write_chunk for every *)
(* non-empty read of the data (one for data of up to 64K bytes, none for   *)
(* empty data), finish.  WriteChunk and FinishAsync run it on the data     *)
(* that implode_bytes was given.                                           *)
(***************************************************************************)
WriteChunk ==
  /\ phase = "finished"
  /\ written # << >>
  /\ ~async_writer.initialized
  /\ async_writer' = write_chunk(async_writer, written)
  /\ UNCHANGED <<implode_writer, written, calls, phase, explode_reader, output, result>>

FinishAsync ==
  /\ phase = "finished"
  /\ written = << >> \/ async_writer.initialized
  /\ ~async_writer.finished
  /\ ~async_writer.err
  /\ async_writer' = async_finish(async_writer)
  /\ UNCHANGED <<implode_writer, written, calls, phase, explode_reader, output, result>>

ExplodeAsync ==
  /\ phase = "finished"
  /\ async_writer.finished
  /\ explode_reader' = ExplodeReader_new(async_writer.writer)
  /\ phase' = "explode"
  /\ UNCHANGED <<implode_writer, written, calls, output, result, async_writer>>

Flush ==
  /\ phase = "open"
  /\ calls.flush < MaxFlushes
  /\ implode_writer' = flush(implode_writer)
  /\ calls' = [calls EXCEPT !.flush = @ + 1]
  /\ UNCHANGED <<written, phase, explode_reader, output, result, async_writer>>

Finish ==
  /\ phase = "open"
  /\ implode_writer' = finish(implode_writer)
  /\ phase' = "finished"
  /\ UNCHANGED <<written, calls, explode_reader, output, result, async_writer>>

Drop ==
  /\ phase = "open"
  /\ implode_writer' = drop(implode_writer)
  /\ phase' = "dropped"
  /\ UNCHANGED <<written, calls, explode_reader, output, result, async_writer>>

(***************************************************************************)
(* explode_bytes: ExplodeReader::new over a cursor, then read_to_end,      *)
(* which calls read until it returns Ok(0) or an error.  Explode starts    *)
(* explode_bytes on what the sink received; Read is one call of read.  An  *)
(* io::Error returned by read becomes PkLibError::Io.                      *)
(***************************************************************************)
Explode ==
  /\ phase = "finished"
  /\ explode_reader' = ExplodeReader_new(implode_writer.writer)
  /\ phase' = "explode"
  /\ UNCHANGED <<implode_writer, written, calls, output, result, async_writer>>

Read ==
  /\ phase = "explode"
  /\ result.status = "none"
  /\ \E buf_len \in {MaxReadLen} : explode_reader' = read(explode_reader, buf_len)
  /\ IF explode_reader'.err # NoError
     THEN /\ result' = [status |-> "err", variant |-> "Io", source |-> explode_reader'.err]
          /\ output' = output
     ELSE IF explode_reader'.ret = 0
     THEN /\ result' = [status |-> "ok", variant |-> NoError, source |-> NoError]
          /\ output' = output
     ELSE /\ result' = result
          /\ output' = output \o explode_reader'.buf
  /\ UNCHANGED <<implode_writer, written, calls, phase, async_writer>>

Next == Write \/ WriteLarge \/ Flush \/ Finish \/ Drop \/ Explode \/ Read

Spec == Init /\ [][Next]_vars

(***************************************************************************)
(* implode_bytes on the inputs of ImplodeInputs, followed by explode_bytes *)
(* of its output.                                                          *)
(***************************************************************************)
NextImplode == WriteAll \/ Finish \/ Explode \/ Read

SpecImplode == Init /\ [][NextImplode]_vars

(***************************************************************************)
(* The calls of find_repetition: one write of a sequence of SearchInputs,  *)
(* then flush and finish, each of which sorts the work buffer and          *)
(* compresses it, calling find_repetition at every position it encodes.    *)
(***************************************************************************)
InitSearch ==
  /\ implode_writer = new(Binary, 1024)
  /\ async_writer = async_new(Binary, 1024)
  /\ written = << >>
  /\ calls = NoCalls
  /\ phase = "open"
  /\ explode_reader = ExplodeReader_new(<< >>)
  /\ output = << >>
  /\ result = NoResult

NextSearch == WriteSearch \/ Flush \/ Finish

SpecSearch == InitSearch /\ [][NextSearch]_vars

(***************************************************************************)
(* implode_bytes on the inputs of FarInputs, whose candidates lie at the   *)
(* limits of the distances of a match, and of TieInputs, whose candidates  *)
(* tie in length.                                                          *)
(***************************************************************************)
NextFar == WriteFar \/ Finish

SpecFar == Init /\ [][NextFar]_vars

(***************************************************************************)
(* implode_bytes, then implode_bytes_async on the same data and            *)
(* configuration, then explode_bytes of the output of the latter.          *)
(***************************************************************************)
NextAsync == WriteAll \/ Finish \/ WriteChunk \/ FinishAsync \/ ExplodeAsync \/ Read

SpecAsync == Init /\ [][NextAsync]_vars

(***************************************************************************)
(* explode_bytes on arbitrary bytes.                                       *)
(***************************************************************************)
InitExplode ==
  /\ implode_writer = new(Binary, 1024)
  /\ async_writer = async_new(Binary, 1024)
  /\ written = << >>
  /\ calls = NoCalls
  /\ phase = "explode"
  /\ \E data \in HostileStreams : explode_reader = ExplodeReader_new(data)
  /\ output = << >>
  /\ result = NoResult

NextExplode == Read

SpecExplode == InitExplode /\ [][NextExplode]_vars

(***************************************************************************)
(* explode_bytes as a function of the data: read_to_end calls read until   *)
(* it returns Ok(0) or an error; read_to_end_step is the loop after one    *)
(* call of read.                                                           *)
(***************************************************************************)
RECURSIVE read_to_end(_, _)
read_to_end_step(r1, out) ==
  IF r1.err # NoError
  THEN [status |-> "err", variant |-> "Io", source |-> r1.err, output |-> << >>]
  ELSE IF r1.ret = 0
  THEN [status |-> "ok", variant |-> NoError, source |-> NoError, output |-> out]
  ELSE read_to_end(r1, out \o r1.buf)

read_to_end(r, out) == read_to_end_step(read(r, MaxReadLen), out)

explode_bytes(data) == read_to_end(ExplodeReader_new(data), << >>)

(***************************************************************************)
(* Streams given as tokens.  A token is <<"lit", byte>> or                 *)
(* <<"match", length, distance>>; encode_tokens makes the calls of         *)
(* encode_literal and encode_match that compress_buffer makes for them,    *)
(* and token_writer is the writer after the header, the tokens, the end    *)
(* marker and the final flush, so token_stream is a well-formed stream     *)
(* that encodes the tokens.                                                *)
(***************************************************************************)
encode_token(w, token) ==
  IF token[1] = "lit" THEN encode_literal(w, token[2])
  ELSE encode_match(w, 0, token[2], token[3])

RECURSIVE encode_tokens(_, _, _)
encode_tokens(w, tokens, i) ==
  IF i > Len(tokens) THEN w
  ELSE encode_tokens(encode_token(w, tokens[i]), tokens, i + 1)

token_writer(mode, dict_size, tokens) ==
  finish_flushed(encode_tokens(initialize(new(mode, dict_size)), tokens, 1))

token_stream(mode, dict_size, tokens) == token_writer(mode, dict_size, tokens).writer

(***************************************************************************)
(* explode_bytes on the stream of a literal followed by one match of       *)
(* distance 1: the run of run_length + 1 equal bytes.                      *)
(***************************************************************************)
RunLengths == 2 .. MAX_REP_LENGTH

run_tokens(byte, run_length) == <<<<"lit", byte>>, <<"match", run_length, 1>>>>

InitRun ==
  /\ \E mode \in {Binary, ASCII}, dict_size \in DictionarySizes,
        byte \in Bytes, run_length \in RunLengths :
       /\ implode_writer = token_writer(mode, dict_size, run_tokens(byte, run_length))
       /\ written = [i \in 1 .. (run_length + 1) |-> byte]
  /\ async_writer = async_new(Binary, 1024)
  /\ calls = NoCalls
  /\ phase = "explode"
  /\ explode_reader = ExplodeReader_new(implode_writer.writer)
  /\ output = << >>
  /\ result = NoResult

NextRun == Read

SpecRun == InitRun /\ [][NextRun]_vars

(***************************************************************************)
(* The codes of a match: the stream of one call of encode_match, made as   *)
(* compress_buffer makes it for the result of a search, followed by the    *)
(* end marker, read by an initialized ExplodeReader, and the two calls     *)
(* expand makes to decode it: decode_lit, then decode_dist with the        *)
(* repetition length derived from the literal.  CodeMatches are, in both   *)
(* modes, every length with the greatest distance of the dictionary and    *)
(* the length 2 with every distance below 0x100, and in binary mode the    *)
(* length 3 with every distance of the dictionary (the mode changes the    *)
(* codes of the literal bytes only).  consumed_bits is the number of bits  *)
(* of the stream after the header that waste_bits has removed: bit_buff    *)
(* holds extra_bits + 8 bits of the in_pos bytes taken from in_buff.       *)
(***************************************************************************)
CodeMatches(mode, dict_size) ==
  {[length |-> match_length, distance |-> dict_size] : match_length \in 3 .. MAX_REP_LENGTH}
  \cup {[length |-> 2, distance |-> distance] : distance \in 1 .. 255}
  \cup {[length |-> 3, distance |-> distance] :
          distance \in 1 .. (IF mode = Binary THEN dict_size ELSE 1)}

match_writer(mode, dict_size, match_result) ==
  finish_flushed(encode_at(initialize(new(mode, dict_size)), zero_tables, 0, match_result))

consumed_bits(r) == 8 * (r.state.in_pos - 3) - r.state.extra_bits

InitCodes ==
  /\ \E mode \in {Binary, ASCII}, dict_size \in DictionarySizes :
       \E match_result \in CodeMatches(mode, dict_size) :
         implode_writer = match_writer(mode, dict_size, match_result)
  /\ async_writer = async_new(Binary, 1024)
  /\ written = << >>
  /\ calls = NoCalls
  /\ phase = "decode_lit"
  /\ explode_reader = reader_initialize(ExplodeReader_new(implode_writer.writer))
  /\ output = << >>
  /\ result = NoResult

DecodeLit ==
  /\ phase = "decode_lit"
  /\ explode_reader.err = NoError
  /\ explode_reader' = decode_lit(explode_reader)
  /\ phase' = "decode_dist"
  /\ UNCHANGED <<implode_writer, written, calls, output, result, async_writer>>

DecodeDist ==
  /\ phase = "decode_dist"
  /\ explode_reader.ret >= 256
  /\ explode_reader.ret # LITERAL_END_OF_STREAM
  /\ explode_reader.ret # LITERAL_ERROR
  /\ explode_reader' = decode_dist(explode_reader, explode_reader.ret - 254)
  /\ phase' = "decoded"
  /\ UNCHANGED <<implode_writer, written, calls, output, result, async_writer>>

NextCodes == DecodeLit \/ DecodeDist

SpecCodes == InitCodes /\ [][NextCodes]_vars

(***************************************************************************)
(* Every code of the length table: the stream of the header, the code of   *)
(* one entry 0x100 .. 0x305 of the literal table (the match flag, one of   *)
(* the 16 length codes and each value of its extra bits) with the code of  *)
(* distance 1, and the end marker.  The stream is either decoded by the    *)
(* two calls of expand on an initialized reader or read to the end.        *)
(***************************************************************************)
LengthLiterals == 256 .. LITERAL_END_OF_STREAM

length_tokens(literal) == <<<<"match", literal - 254, 1>>>>

InitLengths ==
  /\ \E dict_size \in DictionarySizes, literal \in LengthLiterals :
       implode_writer = token_writer(Binary, dict_size, length_tokens(literal))
  /\ async_writer = async_new(Binary, 1024)
  /\ written = << >>
  /\ calls = NoCalls
  /\ phase \in {"decode_lit", "explode"}
  /\ explode_reader = IF phase = "decode_lit"
                      THEN reader_initialize(ExplodeReader_new(implode_writer.writer))
                      ELSE ExplodeReader_new(implode_writer.writer)
  /\ output = << >>
  /\ result = NoResult

NextLengths == DecodeLit \/ DecodeDist \/ Read

SpecLengths == InitLengths /\ [][NextLengths]_vars

(***************************************************************************)
(* The calls of output_bits.  The writer encodes the literals of the bytes *)
(* noise_byte(0), noise_byte(1), ...: encode_literal calls output_bits     *)
(* with the entry of the literal table, and output_bits splits a code of   *)
(* more than 8 bits into two nested calls.  OutputBits is the call for a   *)
(* code of up to 8 bits, OutputLow and OutputHigh are the two nested calls *)
(* of a longer code; phase is "nested" between them.  `written` holds the  *)
(* bytes whose codes are complete.  FlushEarly is Write::flush after at    *)
(* most MaxInput bytes, Finish ends the stream at any byte.  stream_bits   *)
(* is the number of bits put into the stream and stream_valid the bytes    *)
(* that hold them, from the sink and from out_buff, without what the last  *)
(* byte holds above the write position; append_bits puts the low n_bits of *)
(* a code behind the bits of a byte sequence, least significant bit first. *)
(***************************************************************************)
MaxCodes == 1900

noise_byte(i) == (i * 37 + (i \div 256) * 11) % 256

next_entry(w, data) == literal_table(w.ctype)[noise_byte(Len(data))]

InitBits ==
  /\ \E mode \in {Binary, ASCII} :
       implode_writer = initialize(new(mode, 1024))
  /\ async_writer = async_new(Binary, 1024)
  /\ written = << >>
  /\ calls = NoCalls
  /\ phase = "open"
  /\ explode_reader = ExplodeReader_new(<< >>)
  /\ output = << >>
  /\ result = NoResult

OutputBits ==
  /\ phase = "open"
  /\ Len(written) < MaxCodes
  /\ next_entry(implode_writer, written).bits <= 8
  /\ implode_writer' = output_bits(implode_writer,
                                   next_entry(implode_writer, written).bits,
                                   next_entry(implode_writer, written).code)
  /\ written' = Append(written, noise_byte(Len(written)))
  /\ UNCHANGED <<calls, phase, explode_reader, output, result, async_writer>>

OutputLow ==
  /\ phase = "open"
  /\ Len(written) < MaxCodes
  /\ next_entry(implode_writer, written).bits > 8
  /\ implode_writer' = output_bits(implode_writer, 8,
                                   next_entry(implode_writer, written).code)
  /\ phase' = "nested"
  /\ UNCHANGED <<written, calls, explode_reader, output, result, async_writer>>

OutputHigh ==
  /\ phase = "nested"
  /\ implode_writer' = output_bits(implode_writer,
                                   next_entry(implode_writer, written).bits - 8,
                                   Shr(next_entry(implode_writer, written).code, 8))
  /\ written' = Append(written, noise_byte(Len(written)))
  /\ phase' = "open"
  /\ UNCHANGED <<calls, explode_reader, output, result, async_writer>>

FlushEarly ==
  /\ phase = "open"
  /\ calls.flush < MaxFlushes
  /\ Len(written) <= MaxInput
  /\ implode_writer' = flush(implode_writer)
  /\ calls' = [calls EXCEPT !.flush = @ + 1]
  /\ UNCHANGED <<written, phase, explode_reader, output, result, async_writer>>

NextBits == OutputBits \/ OutputLow \/ OutputHigh \/ FlushEarly \/ Finish

SpecBits == InitBits /\ [][NextBits]_vars

stream_bits(w) == 8 * (Len(w.writer) + w.out_bytes) + w.out_bits

stream_valid(w) ==
  IF w.finished THEN w.writer
  ELSE w.writer \o SeqOf(w.out_buff, 0, w.out_bytes)
         \o (IF w.out_bits > 0
             THEN <<w.out_buff[w.out_bytes] % Pow2(w.out_bits)>> ELSE << >>)

append_bits(packed, used_bits, n_bits, code) ==
  LET value == code % Pow2(n_bits)
      room  == 8 - used_bits
  IN  IF used_bits = 0 THEN Append(packed, value)
      ELSE IF n_bits <= room
      THEN [packed EXCEPT ![Len(packed)] = @ + (value * Pow2(used_bits))]
      ELSE Append([packed EXCEPT ![Len(packed)] = @ + ((value % Pow2(room)) * Pow2(used_bits))],
                  value \div Pow2(room))

(***************************************************************************)
(* An ExplodeReader used directly: any number of calls of read, each with  *)
(* a buffer of one of ReadSizes bytes (the one-byte buffer only while at   *)
(* most MaxPending decoded bytes wait in output_buffer), on                *)
(*  - the streams of a few literals and a match (ShortStreams) and every   *)
(*    proper prefix of them (TruncatedStreams),                            *)
(*  - two streams that fill the window: in fill_tokens the last match of   *)
(*    the first window ends at WINDOW_FLUSH exactly, in cross_tokens it    *)
(*    ends beyond it; both go on with a match that refers back across the  *)
(*    flush and a literal,                                                 *)
(*  - a source whose first IN_BUFF_SIZE bytes start with an invalid mode   *)
(*    byte and are followed by a well-formed stream (ChainedStreams).      *)
(* `result` keeps the first Ok(0) or Err returned, `output` every byte     *)
(* returned.                                                               *)
(***************************************************************************)
pending(r) == Len(r.output_buffer) - r.output_pos

ReadSizes == {1, MaxReadLen \div 3, MaxReadLen}

short_tokens == <<<<"lit", 65>>, <<"lit", 255>>, <<"match", 3, 2>>, <<"lit", 66>>>>

ShortStreams ==
  {token_stream(mode, dict_size, short_tokens) :
     mode \in {Binary, ASCII}, dict_size \in DictionarySizes}

TruncatedStreams ==
  UNION {{SubSeq(data, 1, n) : n \in 0 .. Min(MaxLen, Len(data) - 1)} :
           data \in ShortStreams}

window_tokens(last_length) ==
  <<<<"lit", 65>>, <<"lit", 66>>, <<"lit", 67>>>>
  \o [i \in 1 .. 7 |-> <<"match", MAX_REP_LENGTH, 3>>]
  \o <<<<"match", last_length, 3>>, <<"match", 5, 1000>>, <<"lit", 68>>>>

fill_tokens == window_tokens((WINDOW_FLUSH - WINDOW_START) - (3 + 7 * MAX_REP_LENGTH))

cross_tokens == window_tokens(MAX_REP_LENGTH)

WindowStreams ==
  {token_stream(Binary, 1024, fill_tokens), token_stream(Binary, 1024, cross_tokens),
   token_stream(ASCII, 4096, fill_tokens), token_stream(ASCII, 4096, cross_tokens)}

rejected_chunk == [i \in 1 .. IN_BUFF_SIZE |-> IF i = 1 THEN 2 ELSE 0]

ChainedStreams == {rejected_chunk \o data : data \in ShortStreams}

ReaderStreams == ShortStreams \cup TruncatedStreams \cup WindowStreams \cup ChainedStreams

InitReader ==
  /\ implode_writer = new(Binary, 1024)
  /\ async_writer = async_new(Binary, 1024)
  /\ written = << >>
  /\ calls = NoCalls
  /\ phase = "read"
  /\ \E data \in ReaderStreams : explode_reader = ExplodeReader_new(data)
  /\ output = << >>
  /\ result = NoResult

ReadMore ==
  /\ phase = "read"
  /\ \E buf_len \in ReadSizes :
       /\ buf_len = 1 => pending(explode_reader) <= MaxPending
       /\ explode_reader' = read(explode_reader, buf_len)
  /\ output' = output \o explode_reader'.buf
  /\ result' = IF result.status # "none" THEN result
               ELSE IF explode_reader'.err # NoError
               THEN [status |-> "err", variant |-> "Io", source |-> explode_reader'.err]
               ELSE IF explode_reader'.ret = 0
               THEN [status |-> "ok", variant |-> NoError, source |-> NoError]
               ELSE result
  /\ UNCHANGED <<implode_writer, written, calls, phase, async_writer>>

NextReader == ReadMore

SpecReader == InitReader /\ [][NextReader]_vars

(***************************************************************************)
(* explode over a source that returns the stream in pieces: the streams of *)
(* ShortStreams, with the first read, or the first two reads, returning up *)
(* to MaxSplit bytes, or every read returning the same small number of     *)
(* bytes.                                                                  *)
(***************************************************************************)
MaxSplit == 8

ChunkPlans ==
  {<<first>> : first \in 1 .. MaxSplit}
  \cup {<<first, second>> : first \in 1 .. MaxSplit, second \in 1 .. MaxSplit}
  \cup {[k \in 1 .. (4 * MaxSplit) |-> each] : each \in 1 .. 2}

InitChunks ==
  /\ implode_writer = new(Binary, 1024)
  /\ async_writer = async_new(Binary, 1024)
  /\ written = << >>
  /\ calls = NoCalls
  /\ phase = "explode"
  /\ \E data \in ShortStreams, sizes \in ChunkPlans :
       explode_reader = ExplodeReader_over(Chunked(data, sizes))
  /\ output = << >>
  /\ result = NoResult

NextChunks == Read

SpecChunks == InitChunks /\ [][NextChunks]_vars

(***************************************************************************)
(* read in steps of the main loop of expand.  ReadEnter is a call of read  *)
(* up to the loop: it returns at once when decoded bytes wait, when the    *)
(* stream is finished or when initialize fails, and otherwise sets         *)
(* bytes_written and output_pos and enters the loop (phase "expand").      *)
(* ExpandIteration is one pass of the loop, that is one token, and         *)
(* ExpandLeave the rest of expand and of read once the loop is left.       *)
(* EdgeStreams fill the window up to 1 or 2 bytes below WINDOW_FLUSH and   *)
(* go on with a match of 516, 517 or 518 bytes, the longest that           *)
(* decode_lit returns: the last ends 1 byte beyond out_buff when it starts *)
(* at WINDOW_FLUSH - 1.  bits_taken is the number of bits of the source    *)
(* that waste_bits has removed from the bit buffer, counted from the       *)
(* first byte of the stream.                                               *)
(***************************************************************************)
edge_tokens(last_length, edge_length) ==
  <<<<"lit", 65>>>>
  \o [i \in 1 .. 7 |-> <<"match", MAX_REP_LENGTH, 1>>]
  \o <<<<"match", last_length, 1>>, <<"match", edge_length, 1>>, <<"lit", 66>>>>

EdgeStreams ==
  {token_stream(Binary, 1024, edge_tokens(last_length, edge_length)) :
     last_length \in {(WINDOW_FLUSH - WINDOW_START) - (3 + 7 * MAX_REP_LENGTH),
                      (WINDOW_FLUSH - WINDOW_START) - (2 + 7 * MAX_REP_LENGTH)},
     edge_length \in MAX_REP_LENGTH .. (MAX_REP_LENGTH + 2)}

ExpandStreams ==
  ReaderStreams \cup EdgeStreams \cup {data \in HostileStreams : Len(data) <= MaxInput + 2}

expand_begin(r0) ==
  [r0 EXCEPT !.bytes_written = 0, !.brk = FALSE, !.state.output_pos = WINDOW_START]

read_result(r1, earlier) ==
  IF r1.err # NoError
  THEN [status |-> "err", variant |-> "Io", source |-> r1.err]
  ELSE IF r1.ret = 0
  THEN [status |-> "ok", variant |-> NoError, source |-> NoError]
  ELSE earlier

read_output(r1, earlier) ==
  IF r1.err # NoError \/ r1.ret = 0 THEN earlier ELSE earlier \o r1.buf

bits_taken(r) ==
  8 * ((r.reader.pos - r.state.in_bytes) + r.state.in_pos) - r.state.extra_bits

InitExpand ==
  /\ implode_writer = new(Binary, 1024)
  /\ async_writer = async_new(Binary, 1024)
  /\ written = << >>
  /\ calls = NoCalls
  /\ phase = "read"
  /\ \E data \in ExpandStreams : explode_reader = ExplodeReader_new(data)
  /\ output = << >>
  /\ result = NoResult

ReadEnter ==
  /\ phase = "read"
  /\ result.status = "none"
  /\ LET r0 == IF ~explode_reader.initialized
               THEN reader_initialize([explode_reader EXCEPT !.buf = << >>])
               ELSE [explode_reader EXCEPT !.buf = << >>, !.err = NoError]
     IN  IF \/ explode_reader.output_pos < Len(explode_reader.output_buffer)
            \/ explode_reader.finished
            \/ r0.err # NoError
         THEN /\ explode_reader' = read(explode_reader, MaxReadLen)
              /\ result' = read_result(explode_reader', result)
              /\ output' = read_output(explode_reader', output)
              /\ phase' = phase
         ELSE /\ explode_reader' = expand_begin(r0)
              /\ phase' = "expand"
              /\ UNCHANGED <<output, result>>
  /\ UNCHANGED <<implode_writer, written, calls, async_writer>>

ExpandIteration ==
  /\ phase = "expand"
  /\ ~explode_reader.brk
  /\ explode_reader' = expand_iteration(explode_reader)
  /\ UNCHANGED <<implode_writer, written, calls, phase, output, result, async_writer>>

ExpandLeave ==
  /\ phase = "expand"
  /\ explode_reader.brk
  /\ explode_reader' = read_expanded(expand_finish(explode_reader), MaxReadLen)
  /\ result' = read_result(explode_reader', result)
  /\ output' = read_output(explode_reader', output)
  /\ phase' = "read"
  /\ UNCHANGED <<implode_writer, written, calls, async_writer>>

NextExpand == ReadEnter \/ ExpandIteration \/ ExpandLeave

SpecExpand == InitExpand /\ [][NextExpand]_vars

(***************************************************************************)
(* Reading to the end: read_to_end goes on calling read until a call       *)
(* returns Ok(0) or an error, and a call of read that has entered expand   *)
(* runs its loop and returns, so each of the three steps is taken when it  *)
(* stays possible.  FairLoop is the weak fairness of ExpandIteration with  *)
(* its enabling condition written out: a pass of the loop is possible when *)
(* the loop has been entered and not left, and it is a step when it        *)
(* changes the reader.                                                     *)
(***************************************************************************)
FairLoop ==
  \/ []<>(~(/\ phase = "expand"
            /\ ~explode_reader.brk
            /\ expand_iteration(explode_reader) # explode_reader))
  \/ []<><<ExpandIteration>>_vars

FairExpand == SpecExpand /\ WF_vars(ReadEnter) /\ WF_vars(ExpandLeave) /\ FairLoop

(***************************************************************************)
(* Properties.                                                             *)
(***************************************************************************)
sink == implode_writer.writer

stream == explode_reader.reader.data

by_implode_bytes == calls.flush = 0 /\ calls.write <= 1

explode_done == phase = "explode" /\ result.status # "none"

returned_ok(bytes) == result.status = "ok" /\ output = bytes

bit_at(bit_seq, i) == IF i <= Len(bit_seq) THEN bit_seq[i] ELSE 0

pack_bits(bit_seq) ==
  [k \in 1 .. ((Len(bit_seq) + 7) \div 8) |->
     bit_at(bit_seq, 8 * k - 7) + 2 * bit_at(bit_seq, 8 * k - 6)
     + 4 * bit_at(bit_seq, 8 * k - 5) + 8 * bit_at(bit_seq, 8 * k - 4)
     + 16 * bit_at(bit_seq, 8 * k - 3) + 32 * bit_at(bit_seq, 8 * k - 2)
     + 64 * bit_at(bit_seq, 8 * k - 1) + 128 * bit_at(bit_seq, 8 * k)]

end_code == <<literal_table(implode_writer.ctype)[END_MARKER].bits,
              literal_table(implode_writer.ctype)[END_MARKER].code>>

(* C1: explode_bytes(implode_bytes(s, mode, dict_size)) returns Ok(s) for  *)
(* every byte sequence s, the empty and the single-byte one included, and  *)
(* every mode and dictionary size.                                         *)
C1_RoundTrip ==
  (explode_done /\ by_implode_bytes) => returned_ok(written)

(* C2: after any sequence of write and flush calls followed by finish,     *)
(* explode_bytes of what the sink received returns the concatenation of    *)
(* the written buffers, however the input was split and wherever flush was *)
(* called.                                                                 *)
C2_ChunkingIndependent ==
  explode_done => returned_ok(written)

(* C3: after a single write of more than WORK_BUFF_SIZE bytes followed by  *)
(* finish, every input byte has been encoded exactly once and in order:    *)
(* nothing is left in the pending input buffer and nothing was encoded     *)
(* twice.                                                                  *)
C3_LargeWriteEncodedOnce ==
  (/\ phase \in {"finished", "explode"}
   /\ calls = [write |-> 1, flush |-> 0]
   /\ Len(written) > WORK_BUFF_SIZE)
  => (implode_writer.input_buffer = << >> /\ implode_writer.encoded = written)

C6_HeaderRejection ==
  explode_done =>
    /\ (Len(stream) >= 1 /\ stream[1] \notin {Binary, ASCII})
         => (result.status = "err" /\ result.variant = "InvalidCompressionMode")
    /\ (Len(stream) >= 2 /\ stream[1] \in {Binary, ASCII} /\ stream[2] \notin {4, 5, 6})
         => (result.status = "err" /\ result.variant = "InvalidDictionaryBits")

(* C8: for every sequence of write and flush calls ended by finish the     *)
(* sink holds the header bytes [mode, dsize_bits] once and first, then the *)
(* codes of the body, then the end-of-stream code exactly once and last,   *)
(* then only the zero padding of the final byte; nothing is written to the *)
(* sink after finish returns.                                              *)
C8_Finished ==
  phase \in {"finished", "explode"} =>
    /\ sink = <<implode_writer.ctype, implode_writer.dsize_bits>>
                \o pack_bits(implode_writer.bit_stream)
    /\ implode_writer.emitted # << >>
    /\ \A i \in 1 .. Len(implode_writer.emitted) :
         implode_writer.emitted[i] = end_code <=> i = Len(implode_writer.emitted)
    /\ implode_writer.eos = 1

C8_LifecycleOrder ==
  /\ []C8_Finished
  /\ [][phase # "open" => implode_writer' = implode_writer]_vars

C8_Witness ==
  /\ phase = "finished"
  /\ calls.flush > 0
  /\ calls.write > 1
  /\ Len(sink) > 5

(* C9: dropping an ImplodeWriter without finish writes no end-of-stream    *)
(* marker to the sink.                                                     *)
C9_DropWritesNoEndMarker ==
  phase = "dropped" => implode_writer.eos = 0

(* C10: implode_bytes of the empty input (Binary, 2K dictionary) yields    *)
(* the header followed by the end-of-stream code, and explode_bytes of     *)
(* that output returns Ok with no bytes.                                   *)
C10_EmptyInput ==
  (/\ explode_done
   /\ by_implode_bytes
   /\ written = << >>
   /\ implode_writer.ctype = Binary
   /\ implode_writer.dsize_bytes = 2048)
  => (sink = <<0, 5, 1, 255>> /\ returned_ok(<< >>))

literal_code(b) == <<literal_table(implode_writer.ctype)[b].bits,
                     literal_table(implode_writer.ctype)[b].code>>

(* C11: for every byte b, mode and dictionary size, implode_bytes of the   *)
(* one-byte input [b] emits the literal code of b and then the             *)
(* end-of-stream code, and explode_bytes of the output returns Ok([b]).    *)
C11_SingleByte ==
  (/\ phase \in {"finished", "explode"}
   /\ by_implode_bytes
   /\ Len(written) = 1)
  => /\ implode_writer.emitted = <<literal_code(written[1]), end_code>>
     /\ explode_done => returned_ok(written)

(* C12: for every byte X, every n in 2 .. 516 and every valid header,      *)
(* explode_bytes of the stream that encodes the literal X, a match of      *)
(* distance 1 and length n and the end of stream returns n + 1 copies of   *)
(* X.                                                                      *)
C12_SelfOverlappingRun ==
  (/\ explode_done
   /\ Len(written) - 1 \in RunLengths
   /\ stream = token_stream(implode_writer.ctype, implode_writer.dsize_bytes,
                            run_tokens(written[1], Len(written) - 1)))
  => /\ result.status = "ok"
     /\ output = [i \in 1 .. Len(written) |-> written[1]]

C12_Witness ==
  /\ explode_done
  /\ result.status = "ok"
  /\ implode_writer.ctype = ASCII
  /\ implode_writer.emitted = <<literal_code(255), literal_code(MAX_REP_LENGTH + 254),
                                <<DIST_BITS[0], DIST_CODE[0]>>,
                                <<implode_writer.dsize_bits, 0>>, end_code>>
  /\ Len(output) = MAX_REP_LENGTH + 1

(* C13: whatever the sizes of the non-empty buffers passed to the read     *)
(* calls of an ExplodeReader, when a read returns 0 the bytes returned so  *)
(* far are the output of explode_bytes on the same input, and when a read  *)
(* returns an error explode_bytes returns an error on that input.          *)
C13_ReadSizeIndependent ==
  (phase = "read" /\ result.status # "none") =>
    /\ result.status = explode_bytes(stream).status
    /\ result.source = explode_bytes(stream).source
    /\ result.status = "ok" => output = explode_bytes(stream).output

C13_Witness ==
  /\ phase = "read"
  /\ result.status = "ok"
  /\ Len(output) > MaxReadLen
  /\ explode_reader.buf = << >>
  /\ \E i \in 1 .. Len(output) : output[i] = 68

(* C14: once a read on an ExplodeReader has returned a header or decode    *)
(* error, every later read on that reader returns an error or 0 bytes,     *)
(* whatever bytes remain in the underlying source.                         *)
C14_NoRecovery ==
  [][(phase = "read" /\ result.status = "err") => explode_reader'.buf = << >>]_vars

(* C15: implode_bytes of 516 copies of one byte value, in any mode and     *)
(* with any dictionary size, emits exactly one match of length 516.        *)
C15_MaxLengthRun ==
  (/\ phase \in {"finished", "explode"}
   /\ by_implode_bytes
   /\ Len(written) = MAX_REP_LENGTH
   /\ \A i \in 1 .. Len(written) : written[i] = written[1])
  => Cardinality({i \in 1 .. Len(implode_writer.emitted) :
                    implode_writer.emitted[i] = literal_code(MAX_REP_LENGTH + 254)}) = 1

(* C16: for every input and configuration the bytes that                   *)
(* AsyncImplodeWriter writes to its sink (write_chunk calls followed by    *)
(* finish, as in implode_bytes_async) are the stream that implode_bytes    *)
(* produces, and explode_bytes of them returns the input.                  *)
C16_AsyncSameStream ==
  (by_implode_bytes /\ async_writer.finished) =>
    /\ async_writer.writer = sink
    /\ (explode_done /\ stream = async_writer.writer) => returned_ok(written)

(* C17: every byte that expand writes into its output window is returned   *)
(* by read exactly once and in the order decoded, the bytes that a match   *)
(* stores at window positions 0x2000 and above included: the bytes         *)
(* returned are always a prefix of the bytes decoded, and all of them once *)
(* a read has returned 0.                                                  *)
C17_WindowDelivered ==
  phase = "read" =>
    /\ Len(output) <= Len(explode_reader.decoded)
    /\ output = SubSeq(explode_reader.decoded, 1, Len(output))
    /\ result.status = "ok" => output = explode_reader.decoded

window_size(r) == Pow2(r.state.dsize_bits + 6)

window_flushed(r) ==
  r.initialized /\ ~r.finished /\ r.err = NoError /\ r.brk /\ r.bytes_written > 0

recently_decoded(r, d) == r.decoded[Len(r.decoded) - d + 1]

(* C18: after every window flush, for each d from 1 to the smaller of the  *)
(* dictionary size and the number of bytes decoded so far, the byte at     *)
(* out_buff[output_pos - d] is the d-th most recently decoded byte, and so *)
(* is the byte d places below the position at which the next call of       *)
(* expand decodes its first token.                                         *)
C18_WindowPreserved ==
  (phase = "read" /\ window_flushed(explode_reader)) =>
    \A d \in 1 .. Min(window_size(explode_reader), Len(explode_reader.decoded)) :
      /\ out_at(explode_reader.state.out_buff, explode_reader.state.output_pos - d)
           = recently_decoded(explode_reader, d)
      /\ out_at(explode_reader.state.out_buff, WINDOW_START - d)
           = recently_decoded(explode_reader, d)

(***************************************************************************)
(* The matches a search at pos may use: pair_candidates are the earlier    *)
(* positions within the dictionary whose byte pair is the pair at pos,     *)
(* common_length the number of equal bytes from q and from pos, at most    *)
(* cap.                                                                    *)
(***************************************************************************)
pair_candidates(work, pos, dict_size) ==
  {q \in 0 .. (pos - 1) :
     /\ pos - q <= dict_size
     /\ work_at(work, q) = work_at(work, pos)
     /\ work_at(work, q + 1) = work_at(work, pos + 1)}

common_length(work, q, pos, cap) ==
  SetMax({l \in 0 .. cap : \A i \in 0 .. (l - 1) : work_at(work, q + i) = work_at(work, pos + i)})

search_cap(search) == Min(search.work_bytes - search.pos, MAX_REP_LENGTH)

searched_buffer(search) == SubSeq(implode_writer.work_buff, 1, search.work_bytes)

(* C19: find_repetition(pos) considers every earlier position q with       *)
(* pos - q <= dict_size whose byte pair is the pair at pos, position 0 and *)
(* the positions that share a hash bucket with it included, and returns a  *)
(* match of the greatest run length over those candidates (capped at       *)
(* min(remaining, 516)).                                                   *)
C19_SearchComplete ==
  \A k \in 1 .. Len(implode_writer.searches) :
    LET search == implode_writer.searches[k]
        found  == pair_candidates(searched_buffer(search), search.pos,
                                  implode_writer.dsize_bytes)
    IN  found # {} =>
          search.found.length =
            SetMax({common_length(searched_buffer(search), q, search.pos, search_cap(search)) :
                      q \in found})

(* C20: every match of length 2 or more that find_repetition(pos) returns  *)
(* is genuine: distance <= pos, pos + length <= work_bytes and             *)
(* work_buff[pos + i] = work_buff[pos - distance + i] for every i below    *)
(* length, also for candidates with a colliding pair hash and for the      *)
(* distance-1 candidates, whose length is counted from pos alone.          *)
C20_MatchSound ==
  \A k \in 1 .. Len(implode_writer.searches) :
    LET search == implode_writer.searches[k]
    IN  is_match(search.found) =>
          /\ search.found.distance >= 1
          /\ search.found.distance <= search.pos
          /\ search.pos + search.found.length <= search.work_bytes
          /\ \A i \in 0 .. (search.found.length - 1) :
               work_at(implode_writer.work_buff, search.pos + i)
                 = work_at(implode_writer.work_buff, search.pos - search.found.distance + i)

C20_Witness ==
  /\ phase = "finished"
  /\ \E k \in 1 .. Len(implode_writer.searches) :
       LET search == implode_writer.searches[k]
       IN  /\ search.found = [length |-> 1, distance |-> 1]
           /\ work_at(implode_writer.work_buff, search.pos - 1)
                # work_at(implode_writer.work_buff, search.pos)
  /\ \E k \in 1 .. Len(implode_writer.searches) :
       /\ implode_writer.searches[k].found.length >= 2
       /\ implode_writer.searches[k].found.distance = 1

(***************************************************************************)
(* C21: every match the encoder emits has a length in 2 .. 516 and a       *)
(* distance in 1 .. dict_size, a match of length 2 has a distance below    *)
(* 0x100, the index of its distance code is below 64, and encode_match     *)
(* returns no error.                                                       *)
(***************************************************************************)
C21_MatchInRange ==
  /\ ~implode_writer.err
  /\ \A k \in 1 .. Len(implode_writer.searches) :
       LET found == implode_writer.searches[k].found
       IN  is_match(found) =>
             /\ found.length \in 2 .. MAX_REP_LENGTH
             /\ found.distance \in 1 .. implode_writer.dsize_bytes
             /\ (found.length = 2 => found.distance < 256)
             /\ Shr(found.distance - 1,
                    IF found.length = 2 THEN 2 ELSE implode_writer.dsize_bits) < 64

C21_Witness ==
  /\ phase = "finished"
  /\ \E k \in 1 .. Len(implode_writer.searches) :
       implode_writer.searches[k].found = [length |-> 2, distance |-> 255]
  /\ \E k \in 1 .. Len(implode_writer.searches) :
       implode_writer.searches[k].found.length = MAX_REP_LENGTH
  /\ \E k \in 1 .. Len(implode_writer.searches) :
       implode_writer.searches[k].found = [length |-> 3, distance |-> implode_writer.dsize_bytes]

(***************************************************************************)
(* C22: when the match find_repetition(pos) returns has the greatest       *)
(* common length over the candidate positions, it is the candidate of the  *)
(* smallest distance among those of that length, a candidate at distance 1 *)
(* and a common length at the cap of 516 included.                         *)
(***************************************************************************)
C22_TieBreak ==
  \A k \in 1 .. Len(implode_writer.searches) :
    LET search == implode_writer.searches[k]
        found  == pair_candidates(searched_buffer(search), search.pos,
                                  implode_writer.dsize_bytes)
    IN  (/\ is_match(search.found)
         /\ \A q \in found :
              common_length(searched_buffer(search), q, search.pos, search_cap(search))
                <= search.found.length)
        => \A q \in found :
             common_length(searched_buffer(search), q, search.pos, search_cap(search))
               = search.found.length
             => search.pos - q >= search.found.distance

(***************************************************************************)
(* C23: after sort_buffer(begin, end) with end - begin >= 2, for every     *)
(* hash h below 0x900 the entries of phash_offs from phash_to_index[h] up  *)
(* to the start of the next bucket are the offsets p - begin of the        *)
(* positions p in begin .. end - 2 whose pair hash is h, each once and in  *)
(* ascending order; every pair hash of two bytes is below 0x900.  The      *)
(* buffers sorted are the work buffers of up to MaxInput bytes that        *)
(* implode_bytes leaves, from begin 0 or 1 up to their end.                *)
(***************************************************************************)
bucket_offsets(work, buffer_begin, buffer_end, hash) ==
  SelectSeq([i \in 1 .. (buffer_end - 1 - buffer_begin) |-> i - 1],
            LAMBDA offset : pair_hash_at(work, buffer_begin + offset) = hash)

bucket_end(idx, pair_count, hash) ==
  IF hash + 1 < HASH_TABLE_SIZE THEN phash_to_index(idx, hash + 1) ELSE pair_count

sorted_as_claimed(work, buffer_begin, buffer_end, idx) ==
  \A hash \in 0 .. (HASH_TABLE_SIZE - 1) :
    SeqOf(idx.phash_offs, phash_to_index(idx, hash),
          bucket_end(idx, buffer_end - 1 - buffer_begin, hash))
      = bucket_offsets(work, buffer_begin, buffer_end, hash)

pair_hashes_in_table ==
  \A b0, b1 \in 0 .. 255 : byte_pair_hash(b0, b1) < HASH_TABLE_SIZE

C23_SortBuffer ==
  /\ pair_hashes_in_table
  /\ (phase = "finished" /\ work_bytes(implode_writer) <= MaxInput) =>
       \A buffer_begin \in 0 .. 1 :
         work_bytes(implode_writer) - buffer_begin >= 2 =>
           sorted_as_claimed(implode_writer.work_buff, buffer_begin,
                             work_bytes(implode_writer),
                             sort_buffer(implode_writer.work_buff, buffer_begin,
                                         work_bytes(implode_writer)))

C23_Witness ==
  /\ phase = "finished"
  /\ work_bytes(implode_writer) = MaxInput
  /\ \E p, q \in 0 .. (MaxInput - 2) :
       /\ p < q
       /\ work_at(implode_writer.work_buff, p) # work_at(implode_writer.work_buff, q)
       /\ pair_hash_at(implode_writer.work_buff, p) = pair_hash_at(implode_writer.work_buff, q)

(***************************************************************************)
(* C24: for every match the encoder can emit and every dictionary size,    *)
(* decode_lit on the bits encode_match wrote returns length + 0xFE and has *)
(* consumed the bits of the length code, and decode_dist then returns the  *)
(* distance and has consumed exactly the bits encode_match wrote.          *)
(***************************************************************************)
C24_MatchCodes ==
  LET encoded_match == implode_writer.searches[1].found
      emitted       == implode_writer.emitted
  IN  /\ phase = "decode_dist" =>
           /\ explode_reader.ret = encoded_match.length + 254
           /\ consumed_bits(explode_reader) = emitted[1][1]
      /\ phase = "decoded" =>
           /\ explode_reader.ret = encoded_match.distance
           /\ consumed_bits(explode_reader)
                = emitted[1][1] + emitted[2][1] + emitted[3][1]
           /\ ~explode_reader.panic

C24_Witness ==
  /\ phase = "decoded"
  /\ implode_writer.searches[1].found
       = [length |-> MAX_REP_LENGTH, distance |-> implode_writer.dsize_bytes]
  /\ explode_reader.state.dsize_bits = 6
  /\ explode_reader.ret = implode_writer.dsize_bytes

(***************************************************************************)
(* C25: every match the decoder accepts has a length in [2, 516]: no bit   *)
(* sequence makes decode_lit return 0x303 or 0x304, from which expand      *)
(* derives the repetition lengths 517 and 518.  This fails: length code    *)
(* 15 with the extra bits 0xFD and 0xFE decodes to them.                   *)
(***************************************************************************)
C25_LengthsWithinEncoder ==
  /\ phase = "decode_dist" => explode_reader.ret \notin {771, 772}
  /\ phase = "explode" /\ result.status = "ok" => Len(output) <= MAX_REP_LENGTH

(***************************************************************************)
(* C25 as it holds: decode_lit returns the entry of the literal table      *)
(* whose code the stream holds, for every entry 0x100 .. 0x305, and expand *)
(* accepts the match of each entry below the end marker and delivers its   *)
(* literal - 0xFE bytes, so the accepted lengths are those of [2, 518].    *)
(***************************************************************************)
C25_AcceptedLengths ==
  LET hostile_length == Len(implode_writer.encoded)
  IN  /\ phase = "decode_dist" => explode_reader.ret = hostile_length + 254
      /\ phase = "explode" /\ result.status # "none" =>
            /\ result.status = "ok"
            /\ Len(output) = IF hostile_length + 254 = LITERAL_END_OF_STREAM
                             THEN 0 ELSE hostile_length
            /\ Len(output) <= MAX_REP_LENGTH + 2

C25_Witness ==
  /\ phase = "explode"
  /\ result.status = "ok"
  /\ Len(implode_writer.encoded) = MAX_REP_LENGTH + 2
  /\ Len(output) = MAX_REP_LENGTH + 2

(***************************************************************************)
(* C26: after every call of output_bits, out_bits is in [0, 7] and every   *)
(* bit of out_buff at or above the write position (byte out_bytes, bit     *)
(* out_bits) is zero, and the last byte finish writes has zeros above its  *)
(* out_bits used bits.  This fails after the first of the two nested calls *)
(* of a code of more than 8 bits, which stores bits of the second half     *)
(* above the write position.                                               *)
(***************************************************************************)
zero_above(w) ==
  /\ w.out_bits \in 0 .. 7
  /\ \A i \in w.out_bytes .. (OUT_BUFF_SIZE - 1) :
       w.out_buff[i] < (IF i = w.out_bytes THEN Pow2(w.out_bits) ELSE 1)

final_byte_clean(w) ==
  w.finished /\ w.out_bits > 0 => w.writer[Len(w.writer)] < Pow2(w.out_bits)

C26_ZeroAboveAfterEveryCall ==
  zero_above(implode_writer) /\ final_byte_clean(implode_writer)

(***************************************************************************)
(* C26 as it holds: out_bits is in [0, 7] after every call of output_bits; *)
(* after every call that encode_literal or write_end_marker makes, that    *)
(* is when the outermost call has returned, every bit of out_buff at or    *)
(* above the write position is zero; the last byte finish writes has zeros *)
(* above its used bits.                                                    *)
(***************************************************************************)
C26_ZeroAboveAfterCode ==
  /\ implode_writer.out_bits \in 0 .. 7
  /\ phase # "nested" => zero_above(implode_writer)
  /\ final_byte_clean(implode_writer)

C26_Witness ==
  /\ phase = "finished"
  /\ Len(written) > 0
  /\ implode_writer.out_bits = 7
  /\ implode_writer.writer[Len(implode_writer.writer)] = 127

(***************************************************************************)
(* C27: flush_output_buffer, called by output_bits when out_buff holds     *)
(* 0x800 bytes or by an explicit flush, leaves out_bits and the bits of    *)
(* the pending partial byte unchanged: every call of output_bits puts      *)
(* exactly the bits of its code behind the bits of the stream, an explicit *)
(* flush leaves the stream as it is, and what the sink holds after finish  *)
(* is the stream with the end marker, no byte lost, duplicated or split.   *)
(***************************************************************************)
pack_code(packed, used_bits, n_bits, code) ==
  IF n_bits > 8
  THEN append_bits(append_bits(packed, used_bits, 8, code),
                 used_bits, n_bits - 8, code \div 256)
  ELSE append_bits(packed, used_bits, n_bits, code)

bits_stored(w_before, n_bits, code, w_after) ==
  /\ stream_valid(w_after) = append_bits(stream_valid(w_before), w_before.out_bits, n_bits, code)
  /\ stream_bits(w_after) = stream_bits(w_before) + n_bits

flush_kept(w_before, w_after) ==
  /\ w_after.out_bits = w_before.out_bits
  /\ w_after.out_bytes = 0
  /\ w_after.writer = w_before.writer \o SeqOf(w_before.out_buff, 0, w_before.out_bytes)
  /\ w_before.out_bits > 0 => w_after.out_buff[0] = w_before.out_buff[w_before.out_bytes]
  /\ stream_valid(w_after) = stream_valid(w_before)

end_marker_stored(w_before, w_after) ==
  w_after.writer = pack_code(stream_valid(w_before), w_before.out_bits,
                             literal_table(w_before.ctype)[END_MARKER].bits,
                             literal_table(w_before.ctype)[END_MARKER].code)

C27_FlushKeepsStream ==
  [][ IF phase' = "finished"
      THEN end_marker_stored(implode_writer, implode_writer')
      ELSE IF calls' # calls
      THEN flush_kept(implode_writer, implode_writer')
      ELSE IF phase = "nested"
      THEN bits_stored(implode_writer,
                       next_entry(implode_writer, written).bits - 8,
                       Shr(next_entry(implode_writer, written).code, 8),
                       implode_writer')
      ELSE bits_stored(implode_writer,
                       Min(next_entry(implode_writer, written).bits, 8),
                       next_entry(implode_writer, written).code,
                       implode_writer') ]_vars

C27_Witness ==
  /\ phase = "open"
  /\ calls.flush > 0
  /\ Len(implode_writer.writer) > OUT_FLUSH_BYTES
  /\ implode_writer.out_bytes = 0
  /\ implode_writer.out_bits > 0
  /\ implode_writer.out_buff[0] # 0

(***************************************************************************)
(* C28: the result of reading an ExplodeReader to the end, the decoded     *)
(* bytes or the error, is the same however the source splits the stream    *)
(* across its calls of read, also when its first read returns fewer than   *)
(* five bytes although more data follows: it is the result of              *)
(* explode_bytes on the whole stream.                                      *)
(***************************************************************************)
C28_ChunkingIndependent ==
  result.status # "none" =>
    LET whole == explode_bytes(explode_reader.reader.data)
    IN  /\ result.status = whole.status
        /\ result.source = whole.source
        /\ whole.status = "ok" => output = whole.output

(***************************************************************************)
(* The steps of SpecExpand make up read: when a call of read has returned  *)
(* Ok(0) or an error, the result and the bytes delivered are those of      *)
(* explode_bytes on the stream.                                            *)
(***************************************************************************)
ExpandAsRead ==
  result.status # "none" =>
    LET whole == explode_bytes(explode_reader.reader.data)
    IN  /\ result.status = whole.status
        /\ result.source = whole.source
        /\ whole.status = "ok" => output = whole.output

(***************************************************************************)
(* C29: at the start of every token decode output_pos is in                *)
(* [0x1000, 0x2000); every index of out_buff used to store a literal or to *)
(* copy a match is in [0, 0x2204); a match whose copy would end beyond     *)
(* out_buff is rejected with an error before any byte of it is written.    *)
(***************************************************************************)
C29_WindowBounds ==
  phase = "expand" /\ ~explode_reader.brk =>
    /\ explode_reader.state.output_pos \in WINDOW_START .. (WINDOW_FLUSH - 1)
    /\ LET d == decode_lit(explode_reader)
       IN  IF d.ret >= 256 /\ d.ret # LITERAL_END_OF_STREAM /\ d.ret # LITERAL_ERROR
           THEN LET rep_length == d.ret - 254
                    minus_dist == decode_dist(d, rep_length).ret
                    target_pos == explode_reader.state.output_pos
                    source_pos == IF target_pos > minus_dist
                                  THEN target_pos - minus_dist ELSE 0
                    copied     == expand_iteration(explode_reader)
               IN  IF target_pos + rep_length > EXPLODE_OUT_BUFF_SIZE
                   THEN /\ copied.err = "DecompressionError"
                        /\ copied.state.out_buff = explode_reader.state.out_buff
                        /\ copied.output_buffer = explode_reader.output_buffer
                   ELSE copied.err = NoError =>
                          /\ source_pos \in 0 .. (target_pos - 1)
                          /\ target_pos + rep_length - 1 \in 0 .. (EXPLODE_OUT_BUFF_SIZE - 1)
                          /\ copied.decoded = explode_reader.decoded
                               \o [k \in 1 .. rep_length |->
                                     out_at(copied.state.out_buff, source_pos + k - 1)]
           ELSE d.ret < 256 =>
                  explode_reader.state.output_pos \in 0 .. (EXPLODE_OUT_BUFF_SIZE - 1)

C29_Witness ==
  /\ phase = "expand"
  /\ ~explode_reader.brk
  /\ explode_reader.state.output_pos = WINDOW_FLUSH - 1
  /\ decode_lit(explode_reader).ret = LITERAL_END_OF_STREAM - 1

(***************************************************************************)
(* C30: reading an ExplodeReader to the end terminates: every pass of the  *)
(* main loop of expand removes at least one bit from the input or leaves   *)
(* the loop, and a call of read finally returns Ok(0) or an error.         *)
(***************************************************************************)
C30_Terminates ==
  /\ [][phase = "expand" /\ ~explode_reader.brk =>
          \/ bits_taken(explode_reader') > bits_taken(explode_reader)
          \/ explode_reader'.brk]_vars
  /\ <>(result.status # "none")

C30_Witness ==
  /\ phase = "read"
  /\ result.status = "ok"
  /\ explode_reader.finished
  /\ Len(output) > WINDOW_FLUSH - WINDOW_START

=============================================================================
